---- MODULE Spec2Model ----
(***************************************************************************)
(* Model of the YouTube -> iPod pipeline: the acquisition stage            *)
(* (youtube_downloader.py), the conversion and transfer stages as driven   *)
(* by the command line front-end (cli.py) and by one GUI WorkerThread      *)
(* (main.py), file placement on the device (audio_converter.py,            *)
(* ipod_device.py), the main window and its worker threads (main.py), the  *)
(* device object (ipod_device.py), repeated conversions of one track, the  *)
(* text functions _sanitize_filename and _parse_artist_title, the          *)
(* download of each track of a batch (download_audio), the tagging of a    *)
(* converted file (metadata_handler.py), and the external programs the     *)
(* device object and the converter run.                                    *)
(***************************************************************************)
EXTENDS Integers, Sequences, FiniteSets, TLC

(* ------------------------------ bounds --------------------------------- *)

\* Largest number of entries of a playlist.
MaxEntries == 2
\* Largest downloaded_bytes / total_bytes a progress hook reports.
MaxBytes == 2
\* Largest batch handed to a GUI convert or transfer worker.
MaxTracks == 2
\* Largest size in bytes of one converted file.
MaxSize == 2
\* Largest free space in bytes the device reports.
MaxFree == 3

\* Largest number of worker threads alive at the same time.
MaxWorkers == 2

\* Largest number of calls made on one device object.
MaxOps == 2
\* Largest number of files in a directory tree handed to transfer_directory.
MaxFiles == 2

\* Largest number of convert_to_ipod_format calls made for one track.
MaxCalls == 2
\* Longest run of ordinary characters in a file name handed to
\* _sanitize_filename, and longest run of blanks at either end of it.
MaxRun == 101
MaxBlanks == 1
\* Longest video title handed to _parse_artist_title.
MaxTitle == 5
\* Largest number of tracks process_url hands to download_audio.
MaxFetch == 3
\* Largest number of external programs run one after the other.
MaxInvocations == 2

VARIABLES
    frontend,           \* "cli": YouTubeToIPodCLI.run; "gui": one WorkerThread
    task_type,          \* WorkerThread.task_type ("run" for the CLI)
    args,               \* CLI arguments: skip_download, skip_convert, skip_transfer
    pc,                 \* control point of the run / worker
    is_running,         \* WorkerThread.is_running
    progress,           \* last percentage emitted to the callback / signal, -1: none
    finished,           \* finished_signal emissions, in order
    exit_code,          \* value returned by YouTubeToIPodCLI.run, -1: not returned
    \* --- YouTubeDownloader.process_url ---
    is_playlist,        \* 'list=' in url
    total_entries,      \* len(playlist_info['entries'])
    idx,                \* enumerate index of extract_playlist_info (entries seen)
    track_number,       \* extract_playlist_info's running track number
    tracks,             \* resolved TrackInfo records, in order
    di,                 \* number of tracks whose download_audio has been started
    hook,               \* the running download: bytes reported so far, total_bytes
                        \* (0: the engine reports none), int(time.time() * 10)
    successful_tracks,  \* process_url's result list
    \* --- conversion stage ---
    downloaded_tracks,  \* input of the conversion stage
    valid_tracks,       \* GUI: tracks whose download_path exists
    ci,                 \* number of tracks the conversion loop has taken
    converted_tracks,   \* conversion result: tracks with an output path
    untagged,           \* tracks for whose file process_file returned False
    \* --- transfer stage ---
    mount_point,        \* "none" | "missing" | "ok": the device object's mount point
    path_exists,        \* video_id -> os.path.exists(converted path)
    total_size,         \* summed size of the existing files of the batch
    free_space,         \* device_info.get("free_space", 0)
    ti,                 \* number of batch items the transfer loop has taken
    attempted,          \* batch items handed to transfer_file, in order
    transferred_tracks, \* batch items whose transfer_file returned True
    outcome,            \* how the transfer stage ended, "none": not ended
    \* --- one file's way to the device (convert_to_ipod_format, transfer_file) ---
    place_pc,           \* control point of the placement
    track_info,         \* the TrackInfo being converted
    output_dir,         \* AudioConverter.output_dir, a path
    format,             \* "m4a" | "mp3"
    output_file,        \* path convert_to_ipod_format returned
    device_mount,       \* IPodDevice.mount_point: a path, <<>> when None
    mount_exists,       \* os.path.exists(self.mount_point)
    relative_path,      \* transfer_file's relative_path, a path, <<>> when None
    dest_file,          \* transfer_file's dest_file, <<>> before it is computed
    dest_state,         \* the file at dest_file: "absent" | "old" | "partial" | "new"
    written,            \* bytes copy2 has written to dest_file
    transfer_result,    \* what transfer_file returned: "none" | "true" | "false"
    \* --- MainWindow and the WorkerThreads it starts ---
    win_downloaded_tracks,  \* MainWindow.downloaded_tracks is non-empty
    win_converted_tracks,   \* MainWindow.converted_tracks is non-empty
    converted_from,         \* the download converted_tracks were converted from:
                            \* "none" (empty), "current" (the one that gave
                            \* downloaded_tracks) or "earlier"
    current_mount_point,    \* MainWindow.current_mount_point, "none" when None
    download_button,        \* download_button.isEnabled()
    convert_button,         \* convert_button.isEnabled()
    transfer_button,        \* transfer_button.isEnabled()
    threads,            \* the WorkerThreads that are running or whose finished
                        \* signal waits in the event queue, in start order
    \* --- one IPodDevice object and its host ---
    system,             \* platform.system()
    fs,                 \* the paths for which os.path.exists is True
    ipod_mount_point,   \* IPodDevice.mount_point, <<>> when None
    dev_log,            \* the mount_device and unmount_device calls made on the
                        \* object so far, with what each found and returned
    host,               \* what detect_devices finds on the host
    detected,           \* what detect_devices returned, op "none" before the call
    tree,               \* the files of transfer_directory's source_dir, as walked
    walk,               \* number of files the walk has passed
    td_copied,          \* indices of the files handed to shutil.copy2, in order
    td_result,          \* transfer_directory: "idle" | "walking" | "True" | "False"
    td_dest_dir,        \* transfer_directory's dest_dir, a path, <<>> when None
    \* --- convert_to_ipod_format called again and again for one track ---
    overwrite,          \* the overwrite argument
    out_exists,         \* os.path.exists(output_file)
    conv_log,           \* the calls so far: what each returned, whether it ran
                        \* the transcoder, whether it raised
    \* --- the text functions ---
    text_in,            \* the argument, a sequence of characters
    text_out,           \* what the function returned, op "none" before the call
    \* --- process_url's download loop ---
    descriptors,        \* the TrackInfo objects: video_id and download_path
    expected_files,     \* video ids whose expected_path exists on disk
    fetch_log,          \* the download_audio calls so far: how the fetch engine
                        \* ended, what os.path.exists found, what was returned
    \* --- MetadataHandler.process_file ---
    tag_in,             \* the file's suffix, whether the track has a
                        \* thumbnail_url, how its download ends, whether the
                        \* tagger's writes succeed
    tag_out,            \* what process_file did and returned, op "none" before
    \* --- external programs (subprocess.run, ffmpeg.run) ---
    proc_wait,          \* the program the caller waits for, call "none" if none
    proc_log            \* the finished invocations and what the caller made of them

envVars == <<frontend, task_type, args>>
ctlVars == <<envVars, pc, is_running, progress, finished, exit_code>>
acqVars == <<is_playlist, total_entries, idx, track_number, tracks, di, hook,
             successful_tracks>>
cvtVars == <<downloaded_tracks, valid_tracks, ci, converted_tracks, untagged>>
xfrVars == <<mount_point, path_exists, total_size, free_space, ti, attempted,
             transferred_tracks, outcome>>
pipeVars == <<ctlVars, acqVars, cvtVars, xfrVars>>
placeVars == <<place_pc, track_info, output_dir, format, output_file, device_mount,
               mount_exists, relative_path, dest_file, dest_state, written,
               transfer_result>>
winVars == <<win_downloaded_tracks, win_converted_tracks, converted_from,
             current_mount_point,
             download_button, convert_button, transfer_button, threads>>
devVars == <<system, fs, ipod_mount_point, dev_log, host, detected, tree, walk,
             td_copied, td_result, td_dest_dir>>
objVars == <<system, fs, ipod_mount_point, dev_log>>
detVars == <<host, detected>>
treeVars == <<tree, walk, td_copied, td_result, td_dest_dir>>
convVars == <<overwrite, out_exists, conv_log>>
textVars == <<text_in, text_out>>
fetchVars == <<descriptors, expected_files, fetch_log>>
tagVars == <<tag_in, tag_out>>
procVars == <<proc_wait, proc_log>>
auxVars == <<convVars, textVars, fetchVars, tagVars, procVars>>
vars == <<pipeVars, placeVars, winVars, devVars, auxVars>>

\* What the actions of the pipeline, of the placement, of the main window and
\* of the device object leave alone.
offPipe == <<placeVars, winVars, devVars, auxVars>>
offPlace == <<pipeVars, winVars, devVars, auxVars>>
offWindow == <<pipeVars, placeVars, devVars, auxVars>>
offDevice == <<pipeVars, placeVars, winVars, auxVars>>

(* ------------------------------ helpers -------------------------------- *)

\* PlaylistTrack with the playlist position used as the track number.
PlaylistTrackByIndex(entry, number) ==
    [video_id |-> entry, playlist_index |-> entry, track_number |-> entry]

\* TrackInfo of a playlist member (youtube_downloader.py:199-203).
PlaylistTrack(entry, number) ==
    [video_id |-> entry, playlist_index |-> entry, track_number |-> number]

\* TrackInfo of a single video: track_number and playlist_index stay None (0).
SingleTrack == [video_id |-> 1, playlist_index |-> 0, track_number |-> 0]

\* The batch a GUI worker is handed: n tracks of an earlier playlist download.
Batch(n) == [i \in 1..n |-> PlaylistTrack(i, i)]

RECURSIVE KeepFrom(_, _, _)
KeepFrom(s, keep, i) ==
    IF i > Len(s) THEN <<>>
    ELSE (IF keep[i] THEN <<s[i]>> ELSE <<>>) \o KeepFrom(s, keep, i + 1)

\* Keep with the kept items listed last first.
KeepLastFirst(s, keep) ==
    LET kept == KeepFrom(s, keep, 1)
    IN  [i \in 1..Len(kept) |-> kept[Len(kept) + 1 - i]]

\* [x for x in s if keep(x)]
Keep(s, keep) == KeepFrom(s, keep, 1)

RECURSIVE SumFrom(_, _, _, _)
SumFrom(s, ex, sz, i) ==
    IF i > Len(s) THEN 0
    ELSE (IF ex[i] THEN sz[i] ELSE 0) + SumFrom(s, ex, sz, i + 1)

\* progress_callback(p, ...): the CLI constructs its downloader without one.
HasCallback == frontend = "gui"

Emit(p) == IF HasCallback THEN p ELSE progress

\* finished_signal.emit(success, message, result)
Finish(success, message, result) ==
    Append(finished, [success |-> success, message |-> message, result |-> result])

(* ------------------------------- Init ---------------------------------- *)

CliArgs == [skip_download : BOOLEAN, skip_convert : BOOLEAN, skip_transfer : BOOLEAN]

NoArgs == [skip_download |-> FALSE, skip_convert |-> FALSE, skip_transfer |-> FALSE]

InitCommon ==
    /\ pc = "start"
    /\ is_running = TRUE
    /\ progress = -1
    /\ finished = <<>>
    /\ exit_code = -1
    /\ is_playlist = FALSE
    /\ total_entries = 0
    /\ idx = 0
    /\ track_number = 1
    /\ tracks = <<>>
    /\ di = 0
    /\ hook = [downloaded |-> 0, total |-> 0, tick |-> 0]
    /\ successful_tracks = <<>>
    /\ valid_tracks = <<>>
    /\ ci = 0
    /\ untagged = {}
    /\ path_exists = <<>>
    /\ total_size = 0
    /\ free_space = 0
    /\ ti = 0
    /\ attempted = <<>>
    /\ transferred_tracks = <<>>
    /\ outcome = "none"

\* YouTubeToIPodCLI.__init__ and parse_arguments: empty track lists, --device
\* absent ("none") or a path that exists or not.
InitCli ==
    /\ frontend = "cli"
    /\ task_type = "run"
    /\ args \in CliArgs
    /\ downloaded_tracks = <<>>
    /\ converted_tracks = <<>>
    /\ mount_point \in {"none", "missing", "ok"}
    /\ InitCommon

\* WorkerThread.__init__ as MainWindow constructs it: a download of a URL, a
\* conversion of the non-empty downloaded_tracks, or a transfer of the non-empty
\* converted_tracks to the non-empty current_mount_point.
InitGui ==
    /\ frontend = "gui"
    /\ task_type \in {"download", "convert", "transfer"}
    /\ args = NoArgs
    /\ \E n \in 1..MaxTracks :
          /\ downloaded_tracks = IF task_type = "convert" THEN Batch(n) ELSE <<>>
          /\ converted_tracks = IF task_type = "transfer" THEN Batch(n) ELSE <<>>
    /\ mount_point \in IF task_type = "transfer" THEN {"missing", "ok"} ELSE {"none"}
    /\ InitCommon


(* ------------------- YouTubeDownloader.process_url --------------------- *)

\* cli.py download(): args.skip_download leaves downloaded_tracks empty.
CliDownload ==
    /\ frontend = "cli" /\ pc = "start"
    /\ IF args.skip_download
       THEN pc' = "convert" /\ UNCHANGED is_playlist
       ELSE pc' = "process_url" /\ is_playlist' \in BOOLEAN
    /\ UNCHANGED <<envVars, is_running, progress, finished, exit_code>>
    /\ UNCHANGED <<total_entries, idx, track_number, tracks, di, hook,
                   successful_tracks>>
    /\ UNCHANGED <<cvtVars, xfrVars>>
    /\ UNCHANGED offPipe

\* WorkerThread._run_download up to the process_url call.
RunDownload ==
    /\ frontend = "gui" /\ task_type = "download" /\ pc = "start"
    /\ progress' = 0
    /\ is_playlist' \in BOOLEAN
    /\ pc' = "process_url"
    /\ UNCHANGED <<envVars, is_running, finished, exit_code>>
    /\ UNCHANGED <<total_entries, idx, track_number, tracks, di, hook,
                   successful_tracks>>
    /\ UNCHANGED <<cvtVars, xfrVars>>
    /\ UNCHANGED offPipe

\* extract_playlist_info raises ValueError on a URL with 'list=' and no id;
\* process_url's handler reports 100 and returns the (empty) list.
ExtractPlaylistInvalidUrl ==
    /\ pc = "process_url" /\ is_playlist
    /\ progress' = Emit(100)
    /\ pc' = "download_return"
    /\ UNCHANGED <<envVars, is_running, finished, exit_code>>
    /\ UNCHANGED <<acqVars, cvtVars, xfrVars>>
    /\ UNCHANGED offPipe

\* extract_info yields nothing (or raises): extract_playlist_info returns [],
\* and process_url returns [] at "No valid tracks found in playlist".
ExtractPlaylistUnavailable ==
    /\ pc = "process_url" /\ is_playlist
    /\ pc' = "download_return"
    /\ UNCHANGED <<envVars, is_running, progress, finished, exit_code>>
    /\ UNCHANGED <<acqVars, cvtVars, xfrVars>>
    /\ UNCHANGED offPipe

\* The playlist has n entries: callback(0, "Analyzing playlist"), loop begins.
ExtractPlaylistBegin ==
    /\ pc = "process_url" /\ is_playlist
    /\ \E n \in 0..MaxEntries : total_entries' = n
    /\ progress' = Emit(0)
    /\ pc' = "extract_playlist"
    /\ UNCHANGED <<envVars, is_running, finished, exit_code>>
    /\ UNCHANGED <<is_playlist, idx, track_number, tracks, di, hook,
                   successful_tracks>>
    /\ UNCHANGED <<cvtVars, xfrVars>>
    /\ UNCHANGED offPipe

\* progress = int((idx / total_entries) * 10)
AnalysisProgress(i, total) == (i * 10) \div total

\* What one playlist entry turns out to be: None or not a 'url' entry, an entry
\* whose lookup raises, a video extract_video_info cannot resolve, a video.
EntryKinds == {"not_url", "raises", "unavailable", "video"}

\* track_number after an entry has been appended with number n.
NextTrackNumber(n) == n + 1

\* One iteration of the loop over playlist_info['entries'].
ExtractPlaylistEntry ==
    /\ pc = "extract_playlist" /\ idx < total_entries
    /\ idx' = idx + 1
    /\ progress' = Emit(AnalysisProgress(idx + 1, total_entries))
    /\ \E kind \in EntryKinds :
          IF kind = "video"
          THEN /\ tracks' = Append(tracks, PlaylistTrack(idx + 1, track_number))
               /\ track_number' = NextTrackNumber(track_number)
          ELSE UNCHANGED <<tracks, track_number>>
    /\ UNCHANGED <<envVars, pc, is_running, finished, exit_code>>
    /\ UNCHANGED <<is_playlist, total_entries, di, hook, successful_tracks>>
    /\ UNCHANGED <<cvtVars, xfrVars>>
    /\ UNCHANGED offPipe

\* extract_playlist_info returns tracks; process_url returns [] when it is empty.
ExtractPlaylistReturn ==
    /\ pc = "extract_playlist" /\ idx = total_entries
    /\ pc' = IF tracks = <<>> THEN "download_return" ELSE "download_loop"
    /\ UNCHANGED <<envVars, is_running, progress, finished, exit_code>>
    /\ UNCHANGED <<acqVars, cvtVars, xfrVars>>
    /\ UNCHANGED offPipe

\* Single video: extract_video_info returns a TrackInfo, or None ("Could not
\* extract video information", then the final progress update).
ExtractVideoInfo ==
    /\ pc = "process_url" /\ ~is_playlist
    /\ \/ /\ tracks' = <<SingleTrack>>
          /\ pc' = "download_loop"
          /\ UNCHANGED progress
       \/ /\ UNCHANGED tracks
          /\ progress' = Emit(100)
          /\ pc' = "download_return"
    /\ UNCHANGED <<envVars, is_running, finished, exit_code>>
    /\ UNCHANGED <<is_playlist, total_entries, idx, track_number, di, hook,
                   successful_tracks>>
    /\ UNCHANGED <<cvtVars, xfrVars>>
    /\ UNCHANGED offPipe

\* Values of int(time.time() * 10) the hook may see, counted from a multiple
\* of 80 shortly before the download starts.
TickSamples == {0, 45, 79, 80}

\* Top of "for i, track in enumerate(tracks)": callback(10, "Preparing to
\* download"), then download_audio starts the fetch engine for the track.
DownloadStart ==
    /\ pc = "download_loop" /\ di < Len(tracks)
    /\ di' = di + 1
    /\ hook' \in [downloaded : {0}, total : 0..MaxBytes, tick : TickSamples]
    /\ progress' = IF is_playlist THEN Emit(10) ELSE progress
    /\ pc' = "download_audio"
    /\ UNCHANGED <<envVars, is_running, finished, exit_code>>
    /\ UNCHANGED <<is_playlist, total_entries, idx, track_number, tracks,
                   successful_tracks>>
    /\ UNCHANGED <<cvtVars, xfrVars>>
    /\ UNCHANGED offPipe

\* ScaledPercent with the percentage added to 10 as it is.
UnscaledPercent(downloaded, total) == 10 + ((downloaded * 100) \div total)

\* scaled_percent = 10 + (percent * 0.85), percent = downloaded / total * 100
ScaledPercent(downloaded, total) == 10 + ((downloaded * 85) \div total)

\* pulse_progress = 10 + (int(time.time() * 10) % 80)
PulseProgress(tick) == 10 + (tick % 80)

\* _download_progress_hook, d['status'] == 'downloading': with total_bytes the
\* scaled percentage, without it the pulse; no callback when elapsed_time is 0.
\* The engine reports growing byte counts, and the clock does not run backwards.
HookDownloading ==
    /\ pc = "download_audio"
    /\ \E downloaded \in (hook.downloaded + 1)..MaxBytes, elapsed \in 0..1,
          tick \in TickSamples :
          /\ hook.total > 0 => downloaded <= hook.total
          /\ tick >= hook.tick
          /\ hook' = [hook EXCEPT !.downloaded = downloaded, !.tick = tick]
          /\ progress' = IF elapsed = 0 THEN progress
                         ELSE IF hook.total > 0
                              THEN Emit(ScaledPercent(downloaded, hook.total))
                              ELSE Emit(PulseProgress(tick))
    /\ UNCHANGED <<envVars, pc, is_running, finished, exit_code>>
    /\ UNCHANGED <<is_playlist, total_entries, idx, track_number, tracks, di,
                   successful_tracks>>
    /\ UNCHANGED <<cvtVars, xfrVars>>
    /\ UNCHANGED offPipe

\* d['status'] == 'finished' (callback 95), then download_audio looks for the
\* extracted file: found, the track is appended to successful_tracks.
HookFinished ==
    /\ pc = "download_audio"
    /\ progress' = Emit(95)
    /\ \E file_exists \in BOOLEAN :
          successful_tracks' = IF file_exists
                               THEN Append(successful_tracks, tracks[di])
                               ELSE successful_tracks
    /\ pc' = "download_loop"
    /\ UNCHANGED <<envVars, is_running, finished, exit_code>>
    /\ UNCHANGED <<is_playlist, total_entries, idx, track_number, tracks, di,
                   hook>>
    /\ UNCHANGED <<cvtVars, xfrVars>>
    /\ UNCHANGED offPipe

\* d['status'] == 'error' (callback 95): the engine wrote no file and, with
\* ignoreerrors, returns; download_audio looks for the expected file all the
\* same and finds it if an earlier run left it in the temporary directory.
HookError ==
    /\ pc = "download_audio"
    /\ progress' = Emit(95)
    /\ \E file_exists \in BOOLEAN :
          successful_tracks' = IF file_exists
                               THEN Append(successful_tracks, tracks[di])
                               ELSE successful_tracks
    /\ pc' = "download_loop"
    /\ UNCHANGED <<envVars, is_running, finished, exit_code>>
    /\ UNCHANGED <<is_playlist, total_entries, idx, track_number, tracks, di,
                   hook>>
    /\ UNCHANGED <<cvtVars, xfrVars>>
    /\ UNCHANGED offPipe

\* The fetch engine gives up before any hook call: it raises (download_audio
\* returns None), or with ignoreerrors it returns and download_audio looks for
\* the expected file, which only an earlier run can have left.
DownloadAudioFails ==
    /\ pc = "download_audio" /\ hook.downloaded = 0
    /\ \E file_exists \in BOOLEAN :
          successful_tracks' = IF file_exists
                               THEN Append(successful_tracks, tracks[di])
                               ELSE successful_tracks
    /\ pc' = "download_loop"
    /\ UNCHANGED <<envVars, is_running, progress, finished, exit_code>>
    /\ UNCHANGED <<is_playlist, total_entries, idx, track_number, tracks, di,
                   hook>>
    /\ UNCHANGED <<cvtVars, xfrVars>>
    /\ UNCHANGED offPipe

\* End of the loop (or the single video handled): callback(100, "Downloaded n
\* tracks successfully"), return successful_tracks.
ProcessUrlFinish ==
    /\ pc = "download_loop" /\ di = Len(tracks)
    /\ progress' = Emit(100)
    /\ pc' = "download_return"
    /\ UNCHANGED <<envVars, is_running, finished, exit_code>>
    /\ UNCHANGED <<acqVars, cvtVars, xfrVars>>
    /\ UNCHANGED offPipe

\* cli.py run(): self.downloaded_tracks = self.download(...)
CliDownloadReturn ==
    /\ frontend = "cli" /\ pc = "download_return"
    /\ downloaded_tracks' = successful_tracks
    /\ pc' = "convert"
    /\ UNCHANGED <<envVars, is_running, progress, finished, exit_code>>
    /\ UNCHANGED <<valid_tracks, ci, converted_tracks, untagged>>
    /\ UNCHANGED <<acqVars, xfrVars>>
    /\ UNCHANGED offPipe

\* WorkerThread._run_download after process_url: an empty list is a failure.
RunDownloadReturn ==
    /\ frontend = "gui" /\ pc = "download_return"
    /\ finished' = IF successful_tracks = <<>>
                   THEN Finish(FALSE, "No tracks were successfully downloaded", <<>>)
                   ELSE Finish(TRUE, "Downloaded", successful_tracks)
    /\ pc' = "done"
    /\ UNCHANGED <<envVars, is_running, progress, exit_code>>
    /\ UNCHANGED <<acqVars, cvtVars, xfrVars>>
    /\ UNCHANGED offPipe

\* The counts the acquiring stage makes known. What it attempted: the tracks
\* of its download loop ("Preparing to download i/len(tracks)", the only total
\* in its messages once the playlist is analysed). What succeeded: the length
\* of the list process_url returns ("Downloaded n tracks").
AcquiringAttempted == Len(tracks)

AcquiringSucceeded == Len(successful_tracks)

(* --------------------------- conversion stage -------------------------- *)

\* cli.py convert() up to its loop: AudioConverter.__init__ raises RuntimeError
\* when ffmpeg is not installed; run()'s handler then returns 1.
CliConvert ==
    /\ frontend = "cli" /\ pc = "convert"
    /\ IF args.skip_convert
       THEN pc' = "transfer" /\ UNCHANGED exit_code
       ELSE \/ pc' = "cli_convert_loop" /\ UNCHANGED exit_code
            \/ pc' = "done" /\ exit_code' = 1
    /\ UNCHANGED <<envVars, is_running, progress, finished>>
    /\ UNCHANGED <<acqVars, cvtVars, xfrVars>>
    /\ UNCHANGED offPipe

\* The tracks without tags after process_file returned for one more track:
\* its result (False for an unsupported format or a failed tag write) is not
\* looked at by either conversion loop.
AfterProcessFile(track, tagged) ==
    IF tagged THEN untagged ELSE untagged \cup {track}

\* One iteration of cli.py's "for track in tqdm(tracks)": a track whose
\* download_path exists is converted; convert_to_ipod_format returns the output
\* path, process_file is called and the pair is appended; or
\* convert_to_ipod_format re-raises ffmpeg.Error, which nothing in convert()
\* catches, so it reaches run()'s handler: the local result list is lost and
\* run returns 1.
CliConvertTrack ==
    /\ frontend = "cli" /\ pc = "cli_convert_loop" /\ ci < Len(downloaded_tracks)
    /\ \E exists \in BOOLEAN :
          IF ~exists
          THEN /\ ci' = ci + 1
               /\ UNCHANGED <<converted_tracks, untagged, pc, exit_code>>
          ELSE \/ /\ ci' = ci + 1
                  /\ converted_tracks' = Append(converted_tracks, downloaded_tracks[ci + 1])
                  /\ \E tagged \in BOOLEAN :
                        untagged' = AfterProcessFile(downloaded_tracks[ci + 1], tagged)
                  /\ UNCHANGED <<pc, exit_code>>
               \/ /\ ci' = ci + 1
                  /\ converted_tracks' = <<>>
                  /\ pc' = "done"
                  /\ exit_code' = 1
                  /\ UNCHANGED untagged
    /\ UNCHANGED <<envVars, is_running, progress, finished>>
    /\ UNCHANGED <<downloaded_tracks, valid_tracks>>
    /\ UNCHANGED <<acqVars, xfrVars>>
    /\ UNCHANGED offPipe

\* cli.py run(): self.converted_tracks = self.convert(...)
CliConvertReturn ==
    /\ frontend = "cli" /\ pc = "cli_convert_loop" /\ ci = Len(downloaded_tracks)
    /\ pc' = "transfer"
    /\ UNCHANGED <<envVars, is_running, progress, finished, exit_code>>
    /\ UNCHANGED <<acqVars, cvtVars, xfrVars>>
    /\ UNCHANGED offPipe

\* progress = int((i / len(items)) * 100)
LoopProgress(i, n) == (i * 100) \div n

\* WorkerThread._run_convert up to its loop: the valid_tracks filter, then the
\* converter is constructed (RuntimeError reaches WorkerThread.run's handler).
RunConvert ==
    /\ frontend = "gui" /\ task_type = "convert" /\ pc = "start"
    /\ \E keep \in [1..Len(downloaded_tracks) -> BOOLEAN] :
          /\ valid_tracks' = Keep(downloaded_tracks, keep)
          /\ IF valid_tracks' = <<>>
             THEN /\ finished' = Finish(FALSE, "No valid tracks to convert", <<>>)
                  /\ pc' = "done"
                  /\ UNCHANGED progress
             ELSE /\ progress' = 0
                  /\ \/ pc' = "gui_convert_loop" /\ UNCHANGED finished
                     \/ /\ finished' = Finish(FALSE, "FFmpeg is required but not found", <<>>)
                        /\ pc' = "done"
    /\ UNCHANGED <<envVars, is_running, exit_code>>
    /\ UNCHANGED <<downloaded_tracks, ci, converted_tracks, untagged>>
    /\ UNCHANGED <<acqVars, xfrVars>>
    /\ UNCHANGED offPipe

\* One iteration of _run_convert's loop with is_running set: the track is
\* converted, process_file is called and the pair is appended; or the
\* exception is logged and the loop continues.
RunConvertTrack ==
    /\ frontend = "gui" /\ pc = "gui_convert_loop"
    /\ ci < Len(valid_tracks) /\ is_running
    /\ progress' = LoopProgress(ci, Len(valid_tracks))
    /\ ci' = ci + 1
    /\ \/ /\ converted_tracks' = Append(converted_tracks, valid_tracks[ci + 1])
          /\ \E tagged \in BOOLEAN :
                untagged' = AfterProcessFile(valid_tracks[ci + 1], tagged)
       \/ UNCHANGED <<converted_tracks, untagged>>
    /\ UNCHANGED <<envVars, pc, is_running, finished, exit_code>>
    /\ UNCHANGED <<downloaded_tracks, valid_tracks>>
    /\ UNCHANGED <<acqVars, xfrVars>>
    /\ UNCHANGED offPipe

\* An iteration of _run_convert's loop whose transcoder never exits:
\* convert_to_ipod_format waits in ffmpeg.run, which has no timeout, and the
\* worker goes no further.
RunConvertBlocks ==
    /\ frontend = "gui" /\ pc = "gui_convert_loop"
    /\ ci < Len(valid_tracks) /\ is_running
    /\ progress' = LoopProgress(ci, Len(valid_tracks))
    /\ ci' = ci + 1
    /\ pc' = "ffmpeg.run"
    /\ UNCHANGED <<envVars, is_running, finished, exit_code>>
    /\ UNCHANGED <<downloaded_tracks, valid_tracks, converted_tracks, untagged>>
    /\ UNCHANGED <<acqVars, xfrVars>>
    /\ UNCHANGED offPipe

\* The loop of _run_convert ends (exhausted, or "if not self.is_running:
\* break") and the result is reported: an empty result is a failure.
RunConvertReport ==
    /\ frontend = "gui" /\ pc = "gui_convert_loop"
    /\ ci = Len(valid_tracks) \/ ~is_running
    /\ finished' = IF converted_tracks = <<>>
                   THEN Finish(FALSE, "Failed to convert any tracks", <<>>)
                   ELSE Finish(TRUE, "Converted", converted_tracks)
    /\ pc' = "done"
    /\ UNCHANGED <<envVars, is_running, progress, exit_code>>
    /\ UNCHANGED <<acqVars, cvtVars, xfrVars>>
    /\ UNCHANGED offPipe

(* ---------------------------- transfer stage --------------------------- *)

\* cli.py run() reaching the transfer step, and transfer() constructing the
\* IPodDevice: without --device it goes on to detect_devices.
CliTransfer ==
    /\ frontend = "cli" /\ pc = "transfer"
    /\ IF args.skip_transfer
       THEN pc' = "done" /\ exit_code' = 0
       ELSE /\ pc' = IF mount_point = "none" THEN "detect_devices" ELSE "device_info"
            /\ UNCHANGED exit_code
    /\ UNCHANGED <<envVars, is_running, progress, finished>>
    /\ UNCHANGED <<acqVars, cvtVars, xfrVars>>
    /\ UNCHANGED offPipe

\* transfer(): devices = detect_devices(); none found returns 0, and run()
\* logs "Failed to transfer tracks to iPod" and returns 0.
CliDetectDevices ==
    /\ frontend = "cli" /\ pc = "detect_devices"
    /\ \/ /\ outcome' = "no_devices"
          /\ pc' = "done"
          /\ exit_code' = 0
       \/ /\ pc' = "mount_device"
          /\ UNCHANGED <<outcome, exit_code>>
    /\ UNCHANGED <<envVars, is_running, progress, finished>>
    /\ UNCHANGED <<mount_point, path_exists, total_size, free_space, ti, attempted,
                   transferred_tracks>>
    /\ UNCHANGED <<acqVars, cvtVars>>
    /\ UNCHANGED offPipe

\* transfer(): mount_device(devices[0]['id']) records and returns a mount point
\* (which may not exist: the macOS branch takes it from a df column), returns
\* None, or raises FileNotFoundError (no ifuse), which reaches run()'s handler.
CliMountDevice ==
    /\ frontend = "cli" /\ pc = "mount_device"
    /\ \/ /\ mount_point' \in {"ok", "missing"}
          /\ pc' = "device_info"
          /\ UNCHANGED <<outcome, exit_code>>
       \/ /\ outcome' = "mount_failed"
          /\ pc' = "done"
          /\ exit_code' = 0
          /\ UNCHANGED mount_point
       \/ /\ pc' = "done"
          /\ exit_code' = 1
          /\ UNCHANGED <<mount_point, outcome>>
    /\ UNCHANGED <<envVars, is_running, progress, finished>>
    /\ UNCHANGED <<path_exists, total_size, free_space, ti, attempted, transferred_tracks>>
    /\ UNCHANGED <<acqVars, cvtVars>>
    /\ UNCHANGED offPipe

\* WorkerThread._run_transfer up to get_device_info.
RunTransfer ==
    /\ frontend = "gui" /\ task_type = "transfer" /\ pc = "start"
    /\ IF converted_tracks = <<>>
       THEN /\ finished' = Finish(FALSE, "No tracks to transfer", <<>>)
            /\ pc' = "done"
            /\ UNCHANGED progress
       ELSE IF mount_point = "none"
       THEN /\ finished' = Finish(FALSE, "No iPod device mounted", <<>>)
            /\ pc' = "done"
            /\ UNCHANGED progress
       ELSE /\ progress' = 0
            /\ pc' = "device_info"
            /\ UNCHANGED finished
    /\ UNCHANGED <<envVars, is_running, exit_code>>
    /\ UNCHANGED <<acqVars, cvtVars, xfrVars>>
    /\ UNCHANGED offPipe

\* InsufficientSpace with the comparison off by one byte.
InsufficientSpaceOffByOne(total, free) == total > free + 1

\* "if total_size > free_space"
InsufficientSpace(total, free) == total > free

\* get_device_info (an empty dict, so free space 0, unless the mount point
\* exists), the sum of the sizes of the batch's existing files, and the
\* all-or-nothing space check (cli.py:235-251, main.py:172-190).
CheckSpace ==
    /\ pc = "device_info"
    /\ \E free \in 0..MaxFree,
          exists \in [1..Len(converted_tracks) -> BOOLEAN],
          size \in [1..Len(converted_tracks) -> 0..MaxSize] :
          /\ mount_point # "ok" => free = 0
          /\ free_space' = free
          /\ path_exists' = exists
          /\ total_size' = SumFrom(converted_tracks, exists, size, 1)
    /\ IF InsufficientSpace(total_size', free_space')
       THEN /\ outcome' = "insufficient_space"
            /\ pc' = "done"
            /\ IF frontend = "gui"
               THEN /\ finished' = Finish(FALSE, "Not enough space on iPod", <<>>)
                    /\ UNCHANGED exit_code
               ELSE /\ exit_code' = 0
                    /\ UNCHANGED finished
       ELSE /\ pc' = "transfer_loop"
            /\ UNCHANGED <<outcome, finished, exit_code>>
    /\ UNCHANGED <<envVars, is_running, progress>>
    /\ UNCHANGED <<mount_point, ti, attempted, transferred_tracks>>
    /\ UNCHANGED <<acqVars, cvtVars>>
    /\ UNCHANGED offPipe

\* TakesNextItem with the loop also left once a copy has failed.
TakesNextItemUntilFailure ==
    /\ frontend = "cli" \/ is_running
    /\ Len(transferred_tracks) = Len(attempted)

\* The loop goes on to its next item: always in the CLI, in the GUI unless
\* "if not self.is_running: break".
TakesNextItem == frontend = "cli" \/ is_running

\* TransferTrack with a failed copy tried once more.
TransferTrackRetrying ==
    /\ pc = "transfer_loop" /\ ti < Len(converted_tracks)
    /\ TakesNextItem
    /\ progress' = IF frontend = "gui"
                   THEN LoopProgress(ti, Len(converted_tracks)) ELSE progress
    /\ IF path_exists[ti + 1]
       THEN /\ attempted' = Append(attempted, converted_tracks[ti + 1])
            /\ \E copied \in BOOLEAN :
                  /\ copied => mount_point = "ok"
                  /\ transferred_tracks' =
                        IF copied
                        THEN Append(transferred_tracks, converted_tracks[ti + 1])
                        ELSE transferred_tracks
                  /\ ti' = IF copied \/ Len(attempted) >= Len(converted_tracks)
                           THEN ti + 1 ELSE ti
       ELSE /\ ti' = ti + 1
            /\ UNCHANGED <<attempted, transferred_tracks>>
    /\ UNCHANGED <<envVars, pc, is_running, finished, exit_code>>
    /\ UNCHANGED <<mount_point, path_exists, total_size, free_space, outcome>>
    /\ UNCHANGED <<acqVars, cvtVars>>
    /\ UNCHANGED offPipe

\* One iteration of the transfer loop: an item whose path exists is handed to
\* transfer_file, which returns False when the device is not mounted or the
\* copy raises, True otherwise.
TransferTrack ==
    /\ pc = "transfer_loop" /\ ti < Len(converted_tracks)
    /\ TakesNextItem
    /\ ti' = ti + 1
    /\ progress' = IF frontend = "gui"
                   THEN LoopProgress(ti, Len(converted_tracks)) ELSE progress
    /\ IF path_exists[ti + 1]
       THEN /\ attempted' = Append(attempted, converted_tracks[ti + 1])
            /\ \E copied \in BOOLEAN :
                  /\ copied => mount_point = "ok"
                  /\ transferred_tracks' =
                        IF copied
                        THEN Append(transferred_tracks, converted_tracks[ti + 1])
                        ELSE transferred_tracks
       ELSE UNCHANGED <<attempted, transferred_tracks>>
    /\ UNCHANGED <<envVars, pc, is_running, finished, exit_code>>
    /\ UNCHANGED <<mount_point, path_exists, total_size, free_space, outcome>>
    /\ UNCHANGED <<acqVars, cvtVars>>
    /\ UNCHANGED offPipe

\* The transfer loop ends and the stage reports: the GUI emits success with
\* the transferred list, the CLI returns the count and run() returns 0.
TransferReport ==
    /\ pc = "transfer_loop"
    /\ ti = Len(converted_tracks) \/ ~TakesNextItem
    /\ outcome' = "transferred"
    /\ pc' = "done"
    /\ IF frontend = "gui"
       THEN /\ finished' = Finish(TRUE, "Transferred", transferred_tracks)
            /\ UNCHANGED exit_code
       ELSE /\ exit_code' = 0
            /\ UNCHANGED finished
    /\ UNCHANGED <<envVars, is_running, progress>>
    /\ UNCHANGED <<mount_point, path_exists, total_size, free_space, ti, attempted,
                   transferred_tracks>>
    /\ UNCHANGED <<acqVars, cvtVars>>
    /\ UNCHANGED offPipe

\* WorkerThread.stop, called by MainWindow.closeEvent while the thread runs.
Stop ==
    /\ frontend = "gui" /\ pc # "done" /\ is_running
    /\ is_running' = FALSE
    /\ UNCHANGED <<envVars, pc, progress, finished, exit_code>>
    /\ UNCHANGED <<acqVars, cvtVars, xfrVars>>
    /\ UNCHANGED offPipe


(* ------------------------ placement on the device ---------------------- *)

\* Names are sequences of characters (a multi-character element stands for a
\* run of ordinary characters); a path is a sequence of names, its segments.
Root == <<"/">>

\* invalid_chars = '<>:"/\\|?*'
InvalidChars == {"<", ">", ":", "\"", "/", "\\", "|", "?", "*"}

\* "if len(filename) > 100"
MaxNameLen == 100
\* "filename[:97] + '...'"
KeptLen == 97

\* The whitespace characters of the model: the blank and the line feed.
Whitespace == {" ", "\n"}

RECURSIVE LStrip(_)
LStrip(s) == IF s # <<>> /\ Head(s) \in Whitespace THEN LStrip(Tail(s)) ELSE s

RECURSIVE RStrip(_)
RStrip(s) ==
    IF s # <<>> /\ s[Len(s)] \in Whitespace
    THEN RStrip(SubSeq(s, 1, Len(s) - 1)) ELSE s

\* str.strip()
Strip(s) == RStrip(LStrip(s))

\* AudioConverter._sanitize_filename
SanitizeFilename(filename) ==
    LET replaced == [i \in 1..Len(filename) |->
                        IF filename[i] \in InvalidChars THEN "_" ELSE filename[i]]
        limited == IF Len(replaced) > MaxNameLen
                   THEN SubSeq(replaced, 1, KeptLen) \o <<".", ".", ".">>
                   ELSE replaced
    IN  Strip(limited)

\* os.path.join(path, name) for one more component: an absolute component
\* discards what precedes it, an empty one adds only a trailing separator.
JoinPath(path, name) ==
    IF name = Root THEN <<Root>>
    ELSE IF name = <<>> THEN path
    ELSE Append(path, name)

\* Path(p).parts: "." segments are dropped.
Parts(path) == SelectSeq(path, LAMBDA seg : seg # <<".">>)

Digit(n) == CASE n = 0 -> "0" [] n = 1 -> "1" [] n = 2 -> "2" [] n = 3 -> "3"
              [] n = 4 -> "4" [] n = 5 -> "5" [] n = 6 -> "6" [] n = 7 -> "7"
              [] n = 8 -> "8" [] n = 9 -> "9"

\* f"{track_number:02d}" for track numbers below 100
TwoDigits(n) == <<Digit(n \div 10), Digit(n % 10)>>

\* The file name convert_to_ipod_format gives the output
\* (audio_converter.py:70-73, 82).
OutputFilename(t, fmt) ==
    IF t.playlist_title # <<>> /\ t.track_number # 0
    THEN TwoDigits(t.track_number) \o <<" ", "-", " ">> \o SanitizeFilename(t.title)
            \o <<".", fmt>>
    ELSE SanitizeFilename(t.title) \o <<".", fmt>>

\* The album directory name: the playlist title for a playlist track,
\* "track_info.album or track_info.artist" otherwise.
AlbumName(t) ==
    IF t.playlist_title # <<>> THEN t.playlist_title
    ELSE IF t.album # <<>> THEN t.album ELSE t.artist

\* convert_to_ipod_format's output_file (audio_converter.py:64-83).
OutputFile(dir, t, fmt) ==
    LET artist_dir == JoinPath(dir, SanitizeFilename(t.artist))
        album_dir == JoinPath(artist_dir, SanitizeFilename(AlbumName(t)))
    IN  JoinPath(album_dir, OutputFilename(t, fmt))

\* transfer_file's dest_dir when no relative_path is given
\* (ipod_device.py:459-467).
DestDir(mount, source_file) ==
    LET parts == Parts(source_file)
        music == JoinPath(mount, <<"Music">>)
    IN  IF Len(parts) >= 3
        THEN JoinPath(JoinPath(music, parts[Len(parts) - 2]), parts[Len(parts) - 1])
        ELSE music

\* os.path.basename(source_file)
Basename(path) == path[Len(path)]

\* Artists and titles as _parse_artist_title yields them (stripped; the artist
\* is empty when the video title has no separator).
Artists == {<<>>, <<"Artist">>, <<"AC", "/", "DC">>}
Titles == {<<"Title">>, <<"What", "?">>}
PlaylistTitles == {<<"Mix">>}

\* TrackInfo of a single video (extract_video_info: album defaults to the
\* artist) or of a playlist member (extract_playlist_info: album is the playlist
\* title, track numbers from 1).
TrackInfos ==
    { [artist |-> a, title |-> t, album |-> a, track_number |-> 0,
       playlist_title |-> <<>>] : a \in Artists, t \in Titles }
    \cup
    { [artist |-> a, title |-> t, album |-> p, track_number |-> n,
       playlist_title |-> p] :
         a \in Artists, t \in Titles, p \in PlaylistTitles, n \in 1..MaxEntries }

\* Output directories: the front-ends' default ~/Music/iPod, the converter's
\* own default "converted", a directory directly under the root.
OutputDirs == { <<Root, <<"home">>, <<"Music">>, <<"iPod">>>>,
                <<<<"converted">>>>,
                <<Root, <<"out">>>> }

MountPoints == { <<Root, <<"mnt">>, <<"ipod">>>> }

\* relative_path as transfer_file's callers may give it: None (the front-ends
\* give none), or a relative directory of one or two segments.
Hints == { <<>>, <<<<"Podcasts">>>>, <<<<"Music">>, <<"Mix">>>> }

RECURSIVE JoinAll(_, _)
\* os.path.join(path, other) for a path of several components.
JoinAll(path, other) ==
    IF other = <<>> THEN path
    ELSE JoinAll(JoinPath(path, Head(other)), Tail(other))

\* transfer_file's dest_dir: "if relative_path:" the mount point joined with
\* it, else the default under Music.
DestDirFor(mount, source_file, hint) ==
    IF hint # <<>> THEN JoinAll(mount, hint) ELSE DestDir(mount, source_file)

\* No conversion is repeated, no text function is called and no batch is
\* downloaded while another model runs.
ConvertIdle == overwrite = FALSE /\ out_exists = FALSE /\ conv_log = <<>>

TextIdle == text_in = <<>> /\ text_out = [op |-> "none"]

FetchIdle == descriptors = <<>> /\ expected_files = {} /\ fetch_log = <<>>

TagIdle == tag_in = [ext |-> ""] /\ tag_out = [op |-> "none"]

ProcIdle == proc_wait = [call |-> "none"] /\ proc_log = <<>>

AuxIdle == ConvertIdle /\ TextIdle /\ FetchIdle /\ TagIdle /\ ProcIdle

\* The device object while another model runs.
DeviceIdle ==
    /\ system = "Linux"
    /\ fs = {}
    /\ ipod_mount_point = <<>>
    /\ dev_log = <<>>
    /\ host = [tools |-> {}, vendor |-> FALSE, enum |-> FALSE, scan |-> FALSE]
    /\ detected = [op |-> "none"]
    /\ tree = <<>>
    /\ walk = 0
    /\ td_copied = <<>>
    /\ td_result = "idle"
    /\ td_dest_dir = <<>>

\* The main window while another model runs: as constructed, no thread.
WindowIdle ==
    /\ win_downloaded_tracks = FALSE
    /\ win_converted_tracks = FALSE
    /\ converted_from = "none"
    /\ current_mount_point = "none"
    /\ download_button = TRUE
    /\ convert_button = TRUE
    /\ transfer_button = TRUE
    /\ threads = <<>>

\* The placement variables while another model runs.
PlaceIdle ==
    /\ place_pc = "idle"
    /\ track_info = [artist |-> <<>>, title |-> <<>>, album |-> <<>>,
                     track_number |-> 0, playlist_title |-> <<>>]
    /\ output_dir = <<>>
    /\ format = "m4a"
    /\ output_file = <<>>
    /\ device_mount = <<>>
    /\ mount_exists = FALSE
    /\ relative_path = <<>>
    /\ dest_file = <<>>
    /\ dest_state = "absent"
    /\ written = 0
    /\ transfer_result = "none"

\* The pipeline variables while another model runs.
PipeIdle ==
    /\ frontend = "cli"
    /\ task_type = "run"
    /\ args = NoArgs
    /\ downloaded_tracks = <<>>
    /\ converted_tracks = <<>>
    /\ mount_point = "none"
    /\ InitCommon

\* A converter for some output directory, a track to convert, a device object
\* whose mount point exists or not, and whatever is on the device already.
InitPlace ==
    /\ place_pc = "convert"
    /\ track_info \in TrackInfos
    /\ output_dir \in OutputDirs
    /\ format \in {"m4a", "mp3"}
    /\ output_file = <<>>
    /\ device_mount \in MountPoints \cup {<<>>}
    /\ mount_exists \in BOOLEAN
    /\ device_mount = <<>> => ~mount_exists
    /\ relative_path \in Hints
    /\ dest_file = <<>>
    /\ dest_state \in {"absent", "old"}
    /\ written = 0
    /\ transfer_result = "none"
    /\ PipeIdle
    /\ WindowIdle
    /\ DeviceIdle
    /\ AuxIdle

\* convert_to_ipod_format: the output path is derived from the track; the
\* transcoder writes it (or it exists already), or ffmpeg.Error is raised.
ConvertToIpodFormat ==
    /\ place_pc = "convert"
    /\ \/ /\ output_file' = OutputFile(output_dir, track_info, format)
          /\ place_pc' = "transfer_file"
       \/ /\ place_pc' = "done"
          /\ UNCHANGED output_file
    /\ UNCHANGED <<track_info, output_dir, format, device_mount, mount_exists, relative_path,
                   dest_file, dest_state, written, transfer_result>>
    /\ UNCHANGED offPlace

\* transfer_file(path) up to the copy: False when no device is mounted; the
\* destination directory is created (the failure is caught: False) and the
\* destination file name is formed.
TransferFile ==
    /\ place_pc = "transfer_file"
    /\ IF device_mount = <<>> \/ ~mount_exists
       THEN /\ transfer_result' = "false"
            /\ place_pc' = "done"
            /\ UNCHANGED dest_file
       ELSE \/ /\ dest_file' = JoinPath(DestDirFor(device_mount, output_file,
                                                   relative_path),
                                        Basename(output_file))
               /\ place_pc' = "copy2"
               /\ UNCHANGED transfer_result
            \/ /\ transfer_result' = "false"
               /\ place_pc' = "done"
               /\ UNCHANGED dest_file
    /\ UNCHANGED <<track_info, output_dir, format, output_file, device_mount,
                   mount_exists, relative_path, dest_state, written>>
    /\ UNCHANGED offPlace

\* shutil.copy2 opens dest_file for writing, which creates or truncates it, or
\* fails to (the exception is caught: False); it refuses to copy a file onto
\* itself (SameFileError).
CopyOpen ==
    /\ place_pc = "copy2"
    /\ \/ /\ dest_file # output_file
          /\ dest_state' = "partial"
          /\ place_pc' = "copying"
          /\ UNCHANGED transfer_result
       \/ /\ transfer_result' = "false"
          /\ place_pc' = "done"
          /\ UNCHANGED dest_state
    /\ UNCHANGED <<track_info, output_dir, format, output_file, device_mount,
                   mount_exists, relative_path, dest_file, written>>
    /\ UNCHANGED offPlace

\* shutil.copy2 writes the next byte of the source, or the write raises (device
\* full or gone): transfer_file logs it and returns False, removing nothing.
CopyWrite ==
    /\ place_pc = "copying" /\ written < MaxSize
    /\ \/ /\ written' = written + 1
          /\ UNCHANGED <<place_pc, transfer_result>>
       \/ /\ transfer_result' = "false"
          /\ place_pc' = "done"
          /\ UNCHANGED written
    /\ UNCHANGED <<track_info, output_dir, format, output_file, device_mount,
                   mount_exists, relative_path, dest_file, dest_state>>
    /\ UNCHANGED offPlace

\* The last byte is written: the file is complete, copy2 copies the metadata
\* and transfer_file returns True (False if copying the metadata raises).
CopyFinish ==
    /\ place_pc = "copying" /\ written = MaxSize
    /\ dest_state' = "new"
    /\ transfer_result' \in {"true", "false"}
    /\ place_pc' = "done"
    /\ UNCHANGED <<track_info, output_dir, format, output_file, device_mount,
                   mount_exists, relative_path, dest_file, written>>
    /\ UNCHANGED offPlace

(* ------------- convert_to_ipod_format, called repeatedly --------------- *)

\* A converter, a track and an overwrite flag; the output file of the track
\* may be there already (an earlier run).
InitConvert ==
    /\ place_pc = "idle"
    /\ track_info \in TrackInfos
    /\ output_dir \in OutputDirs
    /\ format \in {"m4a", "mp3"}
    /\ output_file = <<>>
    /\ device_mount = <<>>
    /\ mount_exists = FALSE
    /\ relative_path = <<>>
    /\ dest_file = <<>>
    /\ dest_state = "absent"
    /\ written = 0
    /\ transfer_result = "none"
    /\ overwrite \in BOOLEAN
    /\ out_exists \in BOOLEAN
    /\ conv_log = <<>>
    /\ TextIdle /\ FetchIdle /\ TagIdle /\ ProcIdle
    /\ PipeIdle /\ WindowIdle /\ DeviceIdle

\* SkipsExisting without the check for an existing file.
SkipsNever(exists, ow) == FALSE

\* "if os.path.exists(output_file) and not overwrite: return output_file"
SkipsExisting(exists, ow) == exists /\ ~ow

\* One call as the caller sees it: the path returned (<<>> when it raised),
\* whether ffmpeg.run was invoked, whether ffmpeg.Error was raised.
ConvertEntry(result, transcoded, raised) ==
    [result |-> result, transcoded |-> transcoded, raised |-> raised]

\* convert_to_ipod_format(track_info, input_file, format, quality, overwrite):
\* the existing output is returned as it is; else ffmpeg runs and writes the
\* output file, or fails (ffmpeg.Error is raised again) and may leave a
\* partial output file behind.
ConvertAgain ==
    /\ Len(conv_log) < MaxCalls
    /\ LET path == OutputFile(output_dir, track_info, format)
       IN  IF SkipsExisting(out_exists, overwrite)
           THEN /\ conv_log' = Append(conv_log, ConvertEntry(path, FALSE, FALSE))
                /\ UNCHANGED out_exists
           ELSE \/ /\ out_exists' = TRUE
                   /\ conv_log' = Append(conv_log, ConvertEntry(path, TRUE, FALSE))
                \/ /\ out_exists' \in {out_exists, TRUE}
                   /\ conv_log' = Append(conv_log, ConvertEntry(<<>>, TRUE, TRUE))
    /\ UNCHANGED <<overwrite, textVars, fetchVars, tagVars, procVars>>
    /\ UNCHANGED <<pipeVars, placeVars, winVars, devVars>>

(* ------------------- download_audio, track by track ------------------- *)

\* expected_path of a track: temp_dir, the file name made of the track's
\* number and title, and the format once more.
ExpectedPath(d) == <<"temp", d.video_id>>

\* The tracks process_url is about to download, none with a download_path,
\* and the files earlier runs left in the temporary directory.
InitFetch ==
    /\ \E n \in 1..MaxFetch :
          /\ descriptors = [i \in 1..n |-> [video_id |-> i, download_path |-> <<>>]]
          /\ expected_files \in SUBSET {ExpectedPath(descriptors[i]) : i \in 1..n}
    /\ fetch_log = <<>>
    /\ ConvertIdle /\ TextIdle /\ TagIdle /\ ProcIdle
    /\ PipeIdle /\ PlaceIdle /\ WindowIdle /\ DeviceIdle

\* download_audio sets download_path: the engine did not raise, and
\* "if os.path.exists(expected_path)".
SetsPath(engine, exists) == engine # "raises" /\ exists

\* download_audio for the next track of process_url's loop. The fetch engine
\* finishes (and the extracted file is at expected_path or is not), reports an
\* error and returns ('ignoreerrors': True), or raises.
DownloadAudio ==
    /\ Len(fetch_log) < Len(descriptors)
    /\ LET k == Len(fetch_log) + 1
           path == ExpectedPath(descriptors[k])
       IN  \E engine \in {"finished", "error", "raises"}, extracted \in BOOLEAN :
              /\ extracted => engine = "finished"
              /\ expected_files' = IF extracted THEN expected_files \cup {path}
                                   ELSE expected_files
              /\ descriptors' =
                    IF SetsPath(engine, path \in expected_files')
                    THEN [descriptors EXCEPT ![k].download_path = path]
                    ELSE descriptors
              /\ fetch_log' = Append(fetch_log,
                    [video_id |-> descriptors[k].video_id, engine |-> engine,
                     existed |-> path \in expected_files',
                     returned |-> descriptors'[k].download_path])
    /\ UNCHANGED <<convVars, textVars, tagVars, procVars>>
    /\ UNCHANGED <<pipeVars, placeVars, winVars, devVars>>

(* ------------------------- the text functions ------------------------- *)

\* c repeated n times
Rep(c, n) == [i \in 1..n |-> c]

\* File names handed to _sanitize_filename: a run of ordinary characters,
\* possibly after one invalid character, possibly between blanks.
FileNames ==
    { Rep(" ", a) \o mid \o Rep("a", n) \o Rep(" ", b) :
        a \in 0..MaxBlanks, b \in 0..MaxBlanks, n \in 0..MaxRun,
        mid \in {<<>>} \cup {<<c>> : c \in InvalidChars} }

InitSanitize ==
    /\ text_in \in FileNames
    /\ text_out = [op |-> "none"]
    /\ ConvertIdle /\ FetchIdle /\ TagIdle /\ ProcIdle
    /\ PipeIdle /\ PlaceIdle /\ WindowIdle /\ DeviceIdle

\* _sanitize_filename(filename)
SanitizeFilenameCall ==
    /\ text_out.op = "none"
    /\ text_out' = [op |-> "_sanitize_filename",
                    result |-> SanitizeFilename(text_in)]
    /\ UNCHANGED <<text_in, convVars, fetchVars, tagVars, procVars>>
    /\ UNCHANGED <<pipeVars, placeVars, winVars, devVars>>

\* The characters of a video title: an ordinary one, the two whitespace
\* characters and the three separators.
TitleChars == {"a", " ", "\n", "-", ":", "|"}

\* Separators with the colon pattern before the hyphen pattern.
SeparatorsColonFirst == <<":", "-", "|">>

\* The separators of the patterns, in the order of the list "patterns".
Separators == <<"-", ":", "|">>

VideoTitles == UNION {[1..n -> TitleChars] : n \in 0..MaxTitle}

\* "." of a regular expression matches any character but the line feed.
NoLineFeed(s) == \A i \in 1..Len(s) : s[i] # "\n"

\* Where the whitespace before position p begins: \s* takes all of it.
RunStart(s, p) ==
    CHOOSE w \in 0..(p - 1) :
        /\ \A i \in (w + 1)..(p - 1) : s[i] \in Whitespace
        /\ w > 0 => s[w] \notin Whitespace

\* What follows the separator at p and the whitespace after it, up to "$":
\* the end of the string or the line feed that ends the string.
AfterSeparator(s, p) ==
    LET r == LStrip(SubSeq(s, p + 1, Len(s)))
    IN  IF r # <<>> /\ r[Len(r)] = "\n" THEN SubSeq(r, 1, Len(r) - 1) ELSE r

\* The positions at which r'^(.*?)\s*SEP\s*(.*?)$' can split s.
Splits(s, sep) ==
    { p \in 1..Len(s) :
        /\ s[p] = sep
        /\ NoLineFeed(SubSeq(s, 1, RunStart(s, p)))
        /\ NoLineFeed(AfterSeparator(s, p)) }

\* re.match(pattern, video_title).groups(): the lazy first group makes the
\* match split at the first position that can split.
Groups(s, sep) ==
    LET p == CHOOSE q \in Splits(s, sep) : \A r \in Splits(s, sep) : q <= r
    IN  <<SubSeq(s, 1, RunStart(s, p)), AfterSeparator(s, p)>>

\* Trimmed without str.strip().
Untrimmed(g) == g

\* "artist.strip(), title.strip()"
Trimmed(g) == Strip(g)

RECURSIVE ParseFrom(_, _)
\* "for pattern in patterns": the first pattern that matches decides; if none
\* matches, the empty artist and the stripped title.
ParseFrom(s, k) ==
    IF k > Len(Separators) THEN [artist |-> <<>>, title |-> Strip(s)]
    ELSE IF Splits(s, Separators[k]) # {}
    THEN [artist |-> Trimmed(Groups(s, Separators[k])[1]),
          title |-> Trimmed(Groups(s, Separators[k])[2])]
    ELSE ParseFrom(s, k + 1)

\* YouTubeDownloader._parse_artist_title
ParseArtistTitle(s) == ParseFrom(s, 1)

InitParse ==
    /\ text_in \in VideoTitles
    /\ text_out = [op |-> "none"]
    /\ ConvertIdle /\ FetchIdle /\ TagIdle /\ ProcIdle
    /\ PipeIdle /\ PlaceIdle /\ WindowIdle /\ DeviceIdle

\* _parse_artist_title(video_title)
ParseArtistTitleCall ==
    /\ text_out.op = "none"
    /\ text_out' = [op |-> "_parse_artist_title",
                    result |-> ParseArtistTitle(text_in)]
    /\ UNCHANGED <<text_in, convVars, fetchVars, tagVars, procVars>>
    /\ UNCHANGED <<pipeVars, placeVars, winVars, devVars>>

(* ------------------- MainWindow and its WorkerThreads ------------------ *)

\* Mount points mount_device may report to the window.
MountNames == {"/tmp/ipod_mount", "/Volumes/iPod"}

\* MainWindow.__init__ and _setup_ui: empty lists, no mount point, no worker;
\* no button is disabled at set-up.
InitWindow == WindowIdle /\ PipeIdle /\ PlaceIdle /\ DeviceIdle /\ AuxIdle

\* self.worker_thread = WorkerThread(task_type, ...); start(): the window's
\* reference moves to the new thread, earlier threads keep running.
\* Its tracks argument is the window's downloaded_tracks for a convert
\* worker and the window's converted_tracks for a transfer worker.
StartWorker(task, mount) ==
    Append([i \in 1..Len(threads) |-> [threads[i] EXCEPT !.current = FALSE]],
           [task_type |-> task, mount_point |-> mount, state |-> "running",
            success |-> FALSE, current |-> TRUE,
            tracks |-> CASE task = "convert" -> "current"
                         [] task = "transfer" -> converted_from
                         [] OTHER -> "none"])

\* Where a list of tracks comes from once downloaded_tracks has been
\* replaced: what was made from the current download is from an earlier one.
Superseded(origin) == IF origin = "current" THEN "earlier" ELSE origin

\* The slot has run for thread i, and "self.worker_thread = None".
Delivered(i) ==
    LET rest == SubSeq(threads, 1, i - 1) \o SubSeq(threads, i + 1, Len(threads))
    IN  [j \in 1..Len(rest) |-> [rest[j] EXCEPT !.current = FALSE]]

\* finished_signal waits for the slot of a thread of the given task.
Emitted(i, task) ==
    /\ i \in 1..Len(threads)
    /\ threads[i].task_type = task
    /\ threads[i].state = "emitted"

\* WorkerThread.run reaches its finished_signal.emit(success, ...); the slot
\* runs later, in the window's thread.
WorkerFinishes ==
    /\ \E i \in 1..Len(threads), success \in BOOLEAN :
          /\ threads[i].state = "running"
          /\ threads' = [threads EXCEPT ![i].state = "emitted",
                                        ![i].success = success]
    /\ UNCHANGED <<win_downloaded_tracks, win_converted_tracks, converted_from,
                   current_mount_point,
                   download_button, convert_button, transfer_button>>
    /\ UNCHANGED offWindow

\* _on_download_clicked with a URL that passes the two checks (otherwise a
\* message box and nothing else).
OnDownloadClicked ==
    /\ download_button /\ Len(threads) < MaxWorkers
    /\ download_button' = FALSE
    /\ threads' = StartWorker("download", "none")
    /\ UNCHANGED <<win_downloaded_tracks, win_converted_tracks, converted_from,
                   current_mount_point,
                   convert_button, transfer_button>>
    /\ UNCHANGED offWindow

\* _on_download_finished: the result replaces downloaded_tracks (every track
\* process_url returns has a download_path, so the track list is not empty),
\* a failure empties it; converted_tracks is not touched, and a convert worker
\* still running keeps the list it was given.
OnDownloadFinished ==
    /\ \E i \in 1..Len(threads) :
          /\ Emitted(i, "download")
          /\ download_button' = TRUE
          /\ win_downloaded_tracks' = threads[i].success
          /\ convert_button' = IF threads[i].success THEN TRUE ELSE convert_button
          /\ threads' = [j \in 1..Len(Delivered(i)) |->
                           IF Delivered(i)[j].task_type = "convert"
                           THEN [Delivered(i)[j] EXCEPT !.tracks = Superseded(@)]
                           ELSE Delivered(i)[j]]
    /\ converted_from' = Superseded(converted_from)
    /\ UNCHANGED <<win_converted_tracks, current_mount_point, transfer_button>>
    /\ UNCHANGED offWindow

\* _on_convert_clicked with downloaded tracks and an output directory
\* (otherwise a message box and nothing else).
OnConvertClicked ==
    /\ convert_button /\ Len(threads) < MaxWorkers
    /\ win_downloaded_tracks
    /\ convert_button' = FALSE
    /\ threads' = StartWorker("convert", "none")
    /\ UNCHANGED <<win_downloaded_tracks, win_converted_tracks, converted_from,
                   current_mount_point,
                   download_button, transfer_button>>
    /\ UNCHANGED offWindow

\* _on_convert_finished: a successful result (never empty) replaces
\* converted_tracks, a failure leaves them.
OnConvertFinished ==
    /\ \E i \in 1..Len(threads) :
          /\ Emitted(i, "convert")
          /\ convert_button' = TRUE
          /\ win_converted_tracks' = IF threads[i].success THEN TRUE
                                     ELSE win_converted_tracks
          /\ converted_from' = IF threads[i].success THEN threads[i].tracks
                               ELSE converted_from
          /\ threads' = Delivered(i)
    /\ UNCHANGED <<win_downloaded_tracks, current_mount_point, download_button,
                   transfer_button>>
    /\ UNCHANGED offWindow

\* _on_refresh_devices_clicked: the Refresh button is never disabled.
OnRefreshDevicesClicked ==
    /\ Len(threads) < MaxWorkers
    /\ threads' = StartWorker("detect_devices", "none")
    /\ UNCHANGED <<win_downloaded_tracks, win_converted_tracks, converted_from,
                   current_mount_point,
                   download_button, convert_button, transfer_button>>
    /\ UNCHANGED offWindow

\* _on_device_detection_finished: on success the first device is mounted with
\* a fresh IPodDevice; a mount point is recorded and enables the Transfer
\* button, a failed mount or a failed detection disables it.
OnDeviceDetectionFinished ==
    /\ \E i \in 1..Len(threads), mounted \in MountNames \cup {"none"} :
          /\ Emitted(i, "detect_devices")
          /\ IF threads[i].success /\ mounted # "none"
             THEN /\ current_mount_point' = mounted
                  /\ transfer_button' = TRUE
             ELSE /\ current_mount_point' = current_mount_point
                  /\ transfer_button' = FALSE
          /\ threads' = Delivered(i)
    /\ UNCHANGED <<win_downloaded_tracks, win_converted_tracks, converted_from,
                   download_button,
                   convert_button>>
    /\ UNCHANGED offWindow

\* _on_transfer_clicked with converted tracks and a mount point (otherwise a
\* message box and nothing else).
OnTransferClicked ==
    /\ transfer_button /\ Len(threads) < MaxWorkers
    /\ win_converted_tracks
    /\ current_mount_point # "none"
    /\ transfer_button' = FALSE
    /\ threads' = StartWorker("transfer", current_mount_point)
    /\ UNCHANGED <<win_downloaded_tracks, win_converted_tracks, converted_from,
                   current_mount_point,
                   download_button, convert_button>>
    /\ UNCHANGED offWindow

\* _on_transfer_finished
OnTransferFinished ==
    /\ \E i \in 1..Len(threads) :
          /\ Emitted(i, "transfer")
          /\ transfer_button' = TRUE
          /\ threads' = Delivered(i)
    /\ UNCHANGED <<win_downloaded_tracks, win_converted_tracks, converted_from,
                   current_mount_point,
                   download_button, convert_button>>
    /\ UNCHANGED offWindow

(* --------------------------- IPodDevice -------------------------------- *)

\* A path is the sequence of the blank-separated words of its text; <<>>
\* stands for None.
NoPath == <<>>
\* mount_point = "/tmp/ipod_mount"
TmpMount == <<"/tmp/ipod_mount">>
Volume == <<"/Volumes/iPod">>
SpacedVolume == <<"/Volumes/My", "iPod">>
ManualMount == <<"/mnt/ipod">>

Systems == {"Linux", "Darwin", "Windows", "Other"}

\* IPodDevice(mount_point): the argument is stored as it is given, whether
\* the path exists or not.
Constructed ==
    /\ system \in Systems
    /\ fs \in SUBSET {ManualMount, Volume, SpacedVolume}
    /\ ipod_mount_point \in {NoPath, ManualMount}
    /\ dev_log = <<>>
    /\ PipeIdle /\ PlaceIdle /\ WindowIdle /\ AuxIdle

\* A device object on which mount_device and unmount_device are called.
InitDevice ==
    /\ Constructed
    /\ host = [tools |-> {}, vendor |-> FALSE, enum |-> FALSE, scan |-> FALSE]
    /\ detected = [op |-> "none"]
    /\ tree = <<>> /\ walk = 0 /\ td_copied = <<>> /\ td_result = "idle"
    /\ td_dest_dir = <<>>

\* "if self.mount_point and os.path.exists(self.mount_point)"
Mounted == ipod_mount_point # NoPath /\ ipod_mount_point \in fs

\* MountedNever: the early return of mount_device is not taken.
MountedNever == FALSE

\* mount_device's early return: "Device already mounted".
AlreadyMounted == Mounted

\* What mount_device did and returned: the mount point it recorded, whether
\* it ran the platform's mount mechanism (ifuse, df), whether it raised.
MountEntry(after, platform, raised) ==
    [op |-> "mount_device", before |-> ipod_mount_point,
     existed |-> ipod_mount_point \in fs, after |-> after,
     result |-> IF raised THEN NoPath ELSE after, platform |-> platform,
     raised |-> raised]

\* parts[8] of a df line: the first word of the "Mounted on" column.
DfColumn(volume) == <<Head(volume)>>

\* mount_device(device_id)
MountDevice ==
    /\ Len(dev_log) < MaxOps
    /\ IF AlreadyMounted
       THEN /\ dev_log' = Append(dev_log, MountEntry(ipod_mount_point, FALSE, FALSE))
            /\ UNCHANGED <<fs, ipod_mount_point>>
       ELSE CASE system = "Linux" ->
                 \* makedirs, then ifuse: it mounts, exits non-zero
                 \* (CalledProcessError, caught) or is not installed
                 \* (FileNotFoundError, not a SubprocessError)
                 /\ fs' = fs \cup {TmpMount}
                 /\ \E ifuse \in {"ok", "CalledProcessError", "FileNotFoundError"} :
                       /\ ipod_mount_point' = IF ifuse = "ok" THEN TmpMount
                                              ELSE ipod_mount_point
                       /\ dev_log' = Append(dev_log,
                             IF ifuse = "ok" THEN MountEntry(TmpMount, TRUE, FALSE)
                             ELSE [MountEntry(ipod_mount_point, TRUE,
                                              ifuse = "FileNotFoundError")
                                     EXCEPT !.result = NoPath])
              [] system = "Darwin" ->
                 \* df -h: the first line with "iPod" in it gives parts[8]
                 /\ UNCHANGED fs
                 /\ \E line \in ({Volume, SpacedVolume} \cap fs) \cup {NoPath} :
                       /\ ipod_mount_point' = IF line = NoPath THEN ipod_mount_point
                                              ELSE DfColumn(line)
                       /\ dev_log' = Append(dev_log,
                             IF line = NoPath
                             THEN [MountEntry(ipod_mount_point, TRUE, FALSE)
                                     EXCEPT !.result = NoPath]
                             ELSE MountEntry(DfColumn(line), TRUE, FALSE))
              [] OTHER ->
                 \* Windows: "not fully implemented"; any other system falls
                 \* through: None
                 /\ UNCHANGED <<fs, ipod_mount_point>>
                 /\ dev_log' = Append(dev_log,
                        [MountEntry(ipod_mount_point, FALSE, FALSE)
                           EXCEPT !.result = NoPath])
    /\ UNCHANGED <<system, detVars, treeVars>>
    /\ UNCHANGED offDevice

\* What unmount_device returned ("True", "False", "None", "raises") and left
\* recorded.
UnmountEntry(after, result) ==
    [op |-> "unmount_device", before |-> ipod_mount_point, after |-> after,
     result |-> result]

\* AfterUnmount without "self.mount_point = None".
AfterUnmountKeeps(tool) == ipod_mount_point

\* The mount point recorded after fusermount / diskutil eject ran: cleared
\* ("self.mount_point = None") when the tool succeeded, left when it raised.
AfterUnmount(tool) == IF tool = "ok" THEN NoPath ELSE ipod_mount_point

\* unmount_device: fusermount -u / diskutil eject. The tool succeeds only on
\* an existing mount point; it may exit non-zero (CalledProcessError, caught)
\* or be missing (FileNotFoundError, not caught).
UnmountDevice ==
    /\ Len(dev_log) < MaxOps
    /\ IF ipod_mount_point = NoPath
       THEN /\ dev_log' = Append(dev_log, UnmountEntry(NoPath, "False"))
            /\ UNCHANGED <<fs, ipod_mount_point>>
       ELSE IF system \in {"Linux", "Darwin"}
       THEN \E tool \in {"ok", "CalledProcessError", "FileNotFoundError"} :
               /\ tool = "ok" => ipod_mount_point \in fs
               /\ ipod_mount_point' = AfterUnmount(tool)
               /\ fs' = IF tool = "ok" /\ system = "Darwin"
                        THEN fs \ {ipod_mount_point} ELSE fs
               /\ dev_log' = Append(dev_log,
                     UnmountEntry(ipod_mount_point',
                         CASE tool = "ok" -> "True"
                           [] tool = "CalledProcessError" -> "False"
                           [] OTHER -> "raises"))
       ELSE /\ dev_log' = Append(dev_log,
                UnmountEntry(ipod_mount_point,
                             IF system = "Windows" THEN "False" ELSE "None"))
            /\ UNCHANGED <<fs, ipod_mount_point>>
    /\ UNCHANGED <<system, detVars, treeVars>>
    /\ UNCHANGED offDevice

\* The host as detect_devices finds it: the tools that are installed, and
\* whether an iPod is visible to the vendor query (idevice_id/ideviceinfo),
\* to the disk or volume enumeration (diskutil, lsblk, volume labels), to
\* the scan of the mount directories (/Volumes, /media, /mnt).
Tools == {"idevice_id", "diskutil", "lsblk", "win32api"}
ToolSets == {{}, Tools} \cup {Tools \ {t} : t \in Tools}
Hosts == [tools : ToolSets, vendor : BOOLEAN, enum : BOOLEAN, scan : BOOLEAN]

\* "except Exception as e" around the platform branches.
OuterCatchesNone(exc) == FALSE

OuterCatches(exc) == TRUE

\* The macOS branch: idevice_id (FileNotFoundError caught where it is run),
\* then diskutil list in any case (its FileNotFoundError is not caught there),
\* then /Volumes if nothing was found.
DetectDarwin(h) ==
    LET vendor == IF "idevice_id" \in h.tools /\ h.vendor
                  THEN <<"vendor">> ELSE <<>>
        enum == IF h.enum THEN <<"enum">> ELSE <<>>
    IN  IF "diskutil" \notin h.tools
        THEN [ran |-> <<"vendor", "enum">>, devices |-> vendor,
              exc |-> "FileNotFoundError"]
        ELSE IF vendor \o enum # <<>>
        THEN [ran |-> <<"vendor", "enum">>, devices |-> vendor \o enum,
              exc |-> "none"]
        ELSE [ran |-> <<"vendor", "enum", "scan">>,
              devices |-> IF h.scan THEN <<"scan">> ELSE <<>>, exc |-> "none"]

\* The Linux branch: lsblk (FileNotFoundError caught where it is run), then
\* /media and /mnt if nothing was found.
DetectLinux(h) ==
    LET enum == IF "lsblk" \in h.tools /\ h.enum THEN <<"enum">> ELSE <<>>
    IN  IF enum # <<>>
        THEN [ran |-> <<"enum">>, devices |-> enum, exc |-> "none"]
        ELSE [ran |-> <<"enum", "scan">>,
              devices |-> IF h.scan THEN <<"scan">> ELSE <<>>, exc |-> "none"]

\* The Windows branch: "import win32api" stands outside the try whose
\* "except ImportError" holds the drive-letter scan, so the scan never runs.
DetectWindows(h) ==
    IF "win32api" \notin h.tools
    THEN [ran |-> <<>>, devices |-> <<>>, exc |-> "ImportError"]
    ELSE [ran |-> <<"enum">>,
          devices |-> IF h.enum THEN <<"enum">> ELSE <<>>, exc |-> "none"]

\* detect_devices: the platform branch, the outer handler, then the manual
\* mount point if the list is still empty. Each device is named by the
\* strategy that found it.
DetectDevices(sys, h, mount, exists) ==
    LET r == CASE sys = "Darwin" -> DetectDarwin(h)
               [] sys = "Linux" -> DetectLinux(h)
               [] sys = "Windows" -> DetectWindows(h)
               [] OTHER -> [ran |-> <<>>, devices |-> <<>>, exc |-> "none"]
        raised == r.exc # "none" /\ ~OuterCatches(r.exc)
    IN  [op |-> "detect_devices", system |-> sys, host |-> h, before |-> mount,
         existed |-> exists, ran |-> r.ran, raised |-> raised,
         devices |-> IF raised THEN <<>>
                     ELSE IF r.devices = <<>> /\ mount # NoPath /\ exists
                     THEN <<"manual">> ELSE r.devices]

\* A device object on some host, before detect_devices is called.
InitDetect ==
    /\ Constructed
    /\ host \in Hosts
    /\ detected = [op |-> "none"]
    /\ tree = <<>> /\ walk = 0 /\ td_copied = <<>> /\ td_result = "idle"
    /\ td_dest_dir = <<>>

\* detect_devices()
DetectDevicesCall ==
    /\ detected.op = "none"
    /\ detected' = DetectDevices(system, host, ipod_mount_point,
                                 ipod_mount_point \in fs)
    /\ UNCHANGED <<objVars, host, treeVars>>
    /\ UNCHANGED offDevice

\* Where the operating system has mounted a connected iPod: the mount point
\* the volume enumeration and the directory scan put into the device's
\* dictionary.
MediaMount == <<"/media/user/iPod">>
DriveLetter == <<"E:\\">>

SystemMountPoint(sys) ==
    CASE sys = "Darwin" -> Volume
      [] sys = "Linux" -> MediaMount
      [] sys = "Windows" -> DriveLetter
      [] OTHER -> NoPath

\* The front-ends before discovery: cli.py transfer() without --device and
\* _run_detect_devices construct the device object without a mount point; a
\* connected iPod that the enumeration or the scan can see is mounted by the
\* operating system.
InitDiscover ==
    /\ system \in Systems
    /\ host \in Hosts
    /\ fs = IF host.enum \/ host.scan
            THEN {SystemMountPoint(system)} \ {NoPath} ELSE {}
    /\ ipod_mount_point = NoPath
    /\ dev_log = <<>>
    /\ detected = [op |-> "none"]
    /\ tree = <<>> /\ walk = 0 /\ td_copied = <<>> /\ td_result = "idle"
    /\ td_dest_dir = <<>>
    /\ PipeIdle /\ PlaceIdle /\ WindowIdle /\ AuxIdle

\* devices[0]["mount_point"]: None from the vendor query (_get_ipod_mount_point
\* is a stub), the mount point the enumeration or the scan found, or the
\* object's own for the manual entry.
HandleMountPoint ==
    IF detected.op = "none" \/ detected.devices = <<>> THEN NoPath
    ELSE CASE detected.devices[1] = "vendor" -> NoPath
           [] detected.devices[1] = "manual" -> detected.before
           [] OTHER -> SystemMountPoint(detected.system)

\* The mount step after discovery: cli.py transfer() calls mount_device with
\* devices[0]['id'] on its device object, _on_device_detection_finished on a
\* new IPodDevice(); neither object has a mount point recorded.
MountFirstDevice ==
    /\ detected.op = "detect_devices"
    /\ detected.devices # <<>>
    /\ dev_log = <<>>
    /\ MountDevice

\* The extensions transfer_directory accepts: the tuple given to endswith.
AllowList == {".m4a", ".mp3", ".aac", ".mp4"}

\* The extensions of the files in a source tree, as written in their names.
Extensions == {".m4a", ".MP3", ".txt"}

\* str.lower() of an extension.
Lower(ext) == CASE ext = ".MP3" -> ".mp3" [] ext = ".AAC" -> ".aac" [] OTHER -> ext

\* The test on the name as written, without lower().
EligibleAsWritten(f) == f.ext \in AllowList

\* file.lower().endswith(('.m4a', '.mp3', '.aac', '.mp4')).
Eligible(f) == Lower(f.ext) \in AllowList

\* The directory transfer_directory is given, and the directories below it.
SourceDir == <<"/home", "music">>
SubDirs == {<<>>, <<"album">>}

\* The dest_dir arguments: None, or a directory relative to the mount point.
DestDirs == {<<>>, <<"Podcasts">>}

\* A source tree as os.walk lists it: for each file the directory that holds
\* it (root, below source_dir), its extension, and whether shutil.copy2 of it
\* succeeds. A file is named by its place in the listing and its extension.
Trees ==
    UNION {[1..n -> [dir : SubDirs, ext : Extensions, copy_ok : BOOLEAN]] :
             n \in 0..MaxFiles}

\* root of the walk for file i.
WalkRoot(i) == SourceDir \o tree[i].dir

\* full_dest_dir: the mount point joined with dest_dir, or with "Music".
FullDestDir ==
    ipod_mount_point \o (IF td_dest_dir # <<>> THEN td_dest_dir ELSE <<"Music">>)

\* os.path.relpath(root, source_dir) for a root at or below source_dir.
RelPath(root, start) ==
    IF root = start THEN <<".">> ELSE SubSeq(root, Len(start) + 1, Len(root))

\* rel_path after "if rel_path == '.': rel_path = ''".
RelPathOf(i) ==
    IF RelPath(WalkRoot(i), SourceDir) = <<".">> THEN <<>>
    ELSE RelPath(WalkRoot(i), SourceDir)

\* dst_file: dest_subdir joined with the file's name.
DstFile(i) ==
    [dir |-> FullDestDir \o RelPathOf(i), name |-> i, ext |-> tree[i].ext]

\* The files shutil.copy2 has written on the device during the call.
Placed == {DstFile(td_copied[k]) :
             k \in {j \in 1..Len(td_copied) : tree[td_copied[j]].copy_ok}}

\* A device object and an existing source directory, before
\* transfer_directory is called.
InitTree ==
    /\ Constructed
    /\ host = [tools |-> {}, vendor |-> FALSE, enum |-> FALSE, scan |-> FALSE]
    /\ detected = [op |-> "none"]
    /\ tree \in Trees
    /\ walk = 0
    /\ td_copied = <<>>
    /\ td_result = "idle"
    /\ td_dest_dir \in DestDirs

\* transfer_directory up to its loop: False when no existing mount point is
\* recorded, else the destination directory is made.
TransferDirectoryBegin ==
    /\ td_result = "idle"
    /\ td_result' = IF Mounted THEN "walking" ELSE "False"
    /\ UNCHANGED <<objVars, detVars, tree, walk, td_copied, td_dest_dir>>
    /\ UNCHANGED offDevice

\* The walk goes on after shutil.copy2 returned or raised: one try encloses
\* the whole walk, so an exception ends it.
Continues(ok) == ok

\* One file of the walk: skipped unless its extension is on the allow-list,
\* else td_copied with shutil.copy2, whose exception reaches "except Exception"
\* outside the loops: return False.
TransferDirectoryFile ==
    /\ td_result = "walking" /\ walk < Len(tree)
    /\ walk' = walk + 1
    /\ IF Eligible(tree[walk + 1])
       THEN /\ td_copied' = Append(td_copied, walk + 1)
            /\ td_result' = IF Continues(tree[walk + 1].copy_ok)
                            THEN "walking" ELSE "False"
       ELSE UNCHANGED <<td_copied, td_result>>
    /\ UNCHANGED <<objVars, detVars, tree, td_dest_dir>>
    /\ UNCHANGED offDevice

\* The walk is over: return True.
TransferDirectoryReturn ==
    /\ td_result = "walking" /\ walk = Len(tree)
    /\ td_result' = "True"
    /\ UNCHANGED <<objVars, detVars, tree, walk, td_copied, td_dest_dir>>
    /\ UNCHANGED offDevice

(* -------------------- MetadataHandler.process_file --------------------- *)

\* Path(file_path).suffix of the files process_file is handed: the model's
\* suffixes, "" for a name without one.
Suffixes == {".m4a", ".AAC", ".mp4", ".mp3", ".MP3", ".wav", ""}

\* How requests.get, raise_for_status, Image.open and img.save end.
ThumbnailFetches == {"saved", "RequestException", "IOError"}

\* A converted file and its track before process_file is called.
InitTag ==
    /\ tag_in \in [ext : Suffixes, thumbnail_url : BOOLEAN,
                    fetch : ThumbnailFetches, write_ok : BOOLEAN]
    /\ tag_out = [op |-> "none"]
    /\ ConvertIdle /\ TextIdle /\ FetchIdle /\ ProcIdle
    /\ PipeIdle /\ PlaceIdle /\ WindowIdle /\ DeviceIdle

\* CatchesFetchFailure with no handler in download_thumbnail.
CatchesNothing(fetch) == fetch = "saved"

\* download_thumbnail returns: the image was saved, or the failure is one of
\* "except (requests.RequestException, IOError)".
CatchesFetchFailure(fetch) == fetch \in {"saved", "RequestException", "IOError"}

\* download_thumbnail: the path of the saved image, or None.
DownloadThumbnail(fetch) == IF fetch = "saved" THEN "thumbnail" ELSE "none"

\* The branch process_file takes on file_ext = Path(file_path).suffix.lower().
Tagger(ext) ==
    CASE Lower(ext) \in {".m4a", ".aac", ".mp4"} -> "embed_metadata_m4a"
      [] Lower(ext) = ".mp3" -> "embed_metadata_mp3"
      [] OTHER -> "none"

\* process_file: the thumbnail is fetched when the track has a URL, then the
\* tagger for the suffix runs with the thumbnail path or None and process_file
\* returns what it returns: True after its save, False when a write raised
\* (each tagger catches Exception). No tagger: False.
ProcessFile ==
    /\ tag_out.op = "none"
    /\ LET fetched == tag_in.thumbnail_url
           raised == fetched /\ ~CatchesFetchFailure(tag_in.fetch)
           thumbnail_path == IF fetched THEN DownloadThumbnail(tag_in.fetch)
                             ELSE "none"
           tagger == IF raised THEN "none" ELSE Tagger(tag_in.ext)
           saved == tagger # "none" /\ tag_in.write_ok
       IN  tag_out' = [op |-> "process_file",
                       fetched |-> fetched,
                       raised |-> raised,
                       tagger |-> tagger,
                       thumbnail_path |-> IF tagger = "none" THEN "none"
                                          ELSE thumbnail_path,
                       tags_written |-> saved,
                       artwork |-> saved /\ thumbnail_path # "none",
                       result |-> saved]
    /\ UNCHANGED <<tag_in, convVars, textVars, fetchVars, procVars>>
    /\ UNCHANGED <<pipeVars, placeVars, winVars, devVars>>

(* ------------------------- external programs --------------------------- *)

\* The programs run with subprocess.run or ffmpeg.run: the mount and unmount
\* commands, the device listings, the transcoder.
Programs == {"ifuse", "df", "fusermount", "diskutil eject",
             "idevice_id", "diskutil list", "lsblk", "ffmpeg"}

\* No program has been run yet.
InitInvoke ==
    /\ ProcIdle
    /\ ConvertIdle /\ TextIdle /\ FetchIdle /\ TagIdle
    /\ PipeIdle /\ PlaceIdle /\ WindowIdle /\ DeviceIdle

\* What the caller makes of an exit code: subprocess.run(check=True) and
\* ffmpeg.run raise on a non-zero code, the listings test returncode == 0.
Returned(code) == IF code = 0 THEN "success" ELSE "failure"

\* subprocess.run(cmd, ...) or ffmpeg.run(stream, ...): the program is started
\* and the caller waits for it to exit; no call passes a timeout. The
\* program is one that exits with some code, or one that never exits.
Invoke ==
    /\ proc_wait.call = "none" /\ Len(proc_log) < MaxInvocations
    /\ \E program \in Programs, exits \in BOOLEAN, code \in 0..1 :
          proc_wait' = [call |-> program, exits |-> exits, code |-> code]
    /\ UNCHANGED <<proc_log, convVars, textVars, fetchVars, tagVars>>
    /\ UNCHANGED <<pipeVars, placeVars, winVars, devVars>>

\* The program exits and the call returns (or raises) to its caller.
ProgramExits ==
    /\ proc_wait.call # "none" /\ proc_wait.exits
    /\ proc_log' = Append(proc_log, [call |-> proc_wait.call,
                                     result |-> Returned(proc_wait.code)])
    /\ proc_wait' = [call |-> "none"]
    /\ UNCHANGED <<convVars, textVars, fetchVars, tagVars>>
    /\ UNCHANGED <<pipeVars, placeVars, winVars, devVars>>

(* ---------------------------- specification ---------------------------- *)

Init == (InitCli \/ InitGui) /\ PlaceIdle /\ WindowIdle /\ DeviceIdle /\ AuxIdle

Next ==
    \/ CliDownload \/ RunDownload
    \/ ExtractPlaylistInvalidUrl \/ ExtractPlaylistUnavailable \/ ExtractPlaylistBegin
    \/ ExtractPlaylistEntry \/ ExtractPlaylistReturn \/ ExtractVideoInfo
    \/ DownloadStart \/ HookDownloading \/ HookFinished \/ HookError \/ DownloadAudioFails
    \/ ProcessUrlFinish \/ CliDownloadReturn \/ RunDownloadReturn
    \/ CliConvert \/ CliConvertTrack \/ CliConvertReturn
    \/ RunConvert \/ RunConvertTrack \/ RunConvertBlocks \/ RunConvertReport
    \/ CliTransfer \/ CliDetectDevices \/ CliMountDevice \/ RunTransfer
    \/ CheckSpace \/ TransferTrack \/ TransferReport
    \/ Stop

Spec == Init /\ [][Next]_vars

\* The run or worker is scheduled as long as it has a step to take.
SpecRun == Init /\ [][Next]_vars /\ WF_vars(Next)

NextPlace ==
    \/ ConvertToIpodFormat \/ TransferFile
    \/ CopyOpen \/ CopyWrite \/ CopyFinish

SpecPlace == InitPlace /\ [][NextPlace]_vars

NextWindow ==
    \/ OnDownloadClicked \/ OnDownloadFinished
    \/ OnConvertClicked \/ OnConvertFinished
    \/ OnRefreshDevicesClicked \/ OnDeviceDetectionFinished
    \/ OnTransferClicked \/ OnTransferFinished
    \/ WorkerFinishes

SpecWindow == InitWindow /\ [][NextWindow]_vars

NextDevice == MountDevice \/ UnmountDevice

SpecDevice == InitDevice /\ [][NextDevice]_vars

NextDetect == DetectDevicesCall

SpecDetect == InitDetect /\ [][NextDetect]_vars

NextTree ==
    \/ TransferDirectoryBegin
    \/ TransferDirectoryFile
    \/ TransferDirectoryReturn

SpecTree == InitTree /\ [][NextTree]_vars

NextConvert == ConvertAgain

SpecConvert == InitConvert /\ [][NextConvert]_vars

NextDiscover == DetectDevicesCall \/ MountFirstDevice

SpecDiscover == InitDiscover /\ [][NextDiscover]_vars

NextFetch == DownloadAudio

SpecFetch == InitFetch /\ [][NextFetch]_vars

NextSanitize == SanitizeFilenameCall

SpecSanitize == InitSanitize /\ [][NextSanitize]_vars

NextParse == ParseArtistTitleCall

SpecParse == InitParse /\ [][NextParse]_vars

NextTag == ProcessFile

SpecTag == InitTag /\ [][NextTag]_vars

NextInvoke == Invoke \/ ProgramExits

\* A program that exits does so after a finite time.
SpecInvoke == InitInvoke /\ [][NextInvoke]_vars /\ WF_vars(ProgramExits)

(* ------------------------------- claims -------------------------------- *)

\* C1: in the transfer stage of either front-end, when the summed size of the
\* batch exceeds the free space the device reports, the stage ends with the
\* insufficient-space outcome (a failed finished_signal in the GUI) and no item
\* has been handed to transfer_file.
C1_InsufficientSpaceCopiesNothing ==
    total_size > free_space =>
        /\ pc = "done"
        /\ outcome = "insufficient_space"
        /\ attempted = <<>>
        /\ transferred_tracks = <<>>
        /\ frontend = "gui" =>
              /\ Len(finished) = 1
              /\ ~finished[1].success
              /\ finished[1].message = "Not enough space on iPod"

\* C1 witness: a batch of two items larger than the non-zero free space.
C1_Witness ==
    /\ outcome = "insufficient_space"
    /\ free_space > 0
    /\ total_size > free_space
    /\ Len(converted_tracks) = 2

\* C2 as stated: once the transfer stage has passed the space check and
\* reported, every item of the batch whose path exists was handed to
\* transfer_file.
C2_AllExistingAttempted ==
    outcome = "transferred" => attempted = Keep(converted_tracks, path_exists)

\* C2 amended: the same, unless the GUI worker was cancelled (is_running
\* cleared by WorkerThread.stop) before the stage reported; the CLI, which has
\* no cancellation, always attempts every existing item.
C2_AllExistingAttemptedUnlessCancelled ==
    (outcome = "transferred" /\ (frontend = "cli" \/ is_running)) =>
        attempted = Keep(converted_tracks, path_exists)

\* C2 witness: total size equal to the free space, two existing items, both
\* attempted, one of the copies failed.
C2_Witness ==
    /\ outcome = "transferred"
    /\ total_size = free_space /\ free_space > 0
    /\ Len(attempted) = 2
    /\ Len(transferred_tracks) = 1

\* C3: the tracks extract_playlist_info has resolved carry the track numbers
\* 1..k in list order, k being the number of surviving entries.
C3_OrdinalsContiguous ==
    is_playlist =>
        /\ \A i \in 1..Len(tracks) : tracks[i].track_number = i
        /\ track_number = Len(tracks) + 1

\* C3 witness: the first entry was skipped and the second survived.
C3_Witness ==
    /\ is_playlist
    /\ pc = "download_loop"
    /\ Len(tracks) = 1
    /\ tracks[1].playlist_index = 2

\* C4: a stage is never entered with an empty input: the conversion loop only
\* with downloaded tracks, the transfer stage (device detection and mounting
\* included) only with converted tracks, when the stage before it ran.
C4_NoStageOnEmptyInput ==
    /\ (pc = "cli_convert_loop" /\ ~args.skip_download) => downloaded_tracks # <<>>
    /\ pc = "gui_convert_loop" => valid_tracks # <<>>
    /\ (pc \in {"detect_devices", "mount_device", "device_info", "transfer_loop"}
          /\ ~args.skip_convert) => converted_tracks # <<>>

\* The input of the conversion loop.
ConvertInput == IF frontend = "cli" THEN downloaded_tracks ELSE valid_tracks

\* C5: a run that was not cancelled has, when it ends, taken every item of
\* every batch it started on: no item failure ends a loop early.
C5_ItemFailureNeverAbortsBatch ==
    (pc = "done" /\ (frontend = "cli" \/ is_running)) =>
        /\ di >= 1 => di = Len(tracks)
        /\ ci >= 1 => ci = Len(ConvertInput)
        /\ ti >= 1 => ti = Len(converted_tracks)

\* C6: once is_running is cleared no stage starts a further item (download,
\* conversion or transfer).
C6_NoItemStartedAfterStop ==
    [][~is_running => (di' = di /\ ci' = ci /\ ti' = ti)]_vars

\* C7: a conversion or transfer loop cut short by cancellation reports what it
\* has as a success, never as an error.
C7_CancelledStageReportsSuccess ==
    (pc = "done" /\ frontend = "gui" /\ finished # <<>>) =>
        LET report == finished[Len(finished)]
            cut_short ==
                \/ /\ task_type = "convert"
                   /\ report.message \in {"Converted", "Failed to convert any tracks"}
                   /\ ci < Len(valid_tracks)
                \/ /\ task_type = "transfer"
                   /\ report.message = "Transferred"
                   /\ ti < Len(converted_tracks)
        IN  cut_short => report.success

\* process_url has been called and has not returned to its caller.
InProcessUrl ==
    pc \in {"process_url", "extract_playlist", "download_loop", "download_audio",
            "download_return"}

\* C8: the percentages process_url passes to its callback never decrease.
C8_ProgressNonDecreasing ==
    [][(InProcessUrl /\ InProcessUrl') => progress' >= progress]_vars

\* Where the layout Music/<artist>/<album-or-collection>/[NN - ]<title>.<ext>
\* puts the track (names sanitized as the converter does).
LayoutPath ==
    JoinPath(JoinPath(JoinPath(JoinPath(device_mount, <<"Music">>),
                               SanitizeFilename(track_info.artist)),
                      SanitizeFilename(AlbumName(track_info))),
             OutputFilename(track_info, format))

\* C9: the file transfer_file writes for a converted track, called as the
\* front-ends call it (without relative_path), is the one the layout names,
\* for every descriptor, an empty artist included.
C9_DeviceLayout ==
    (dest_file # <<>> /\ relative_path = <<>>) => dest_file = LayoutPath

\* C10: after transfer_file has failed, the destination holds no partially
\* written file.
C10_NoPartialFileAfterFailure == transfer_result = "false" => dest_state # "partial"

\* Worker threads that are running a stage of the given kind.
Running(task) == {i \in 1..Len(threads) :
                    threads[i].task_type = task /\ threads[i].state = "running"}

\* C11: at no time are two transfer workers running against the same mount
\* point, whatever buttons are clicked and whenever the completion callbacks
\* arrive.
C11_TransfersNeverInterleave ==
    \A i, j \in Running("transfer") :
        i # j => threads[i].mount_point # threads[j].mount_point

\* C12: the stages run one at a time and in order: the CLI is in one stage at
\* a time, and in the window at most one of the download, convert and transfer
\* workers is running.
C12_StagesStrictlySequential ==
    Cardinality(Running("download") \cup Running("convert")
                    \cup Running("transfer")) <= 1

\* The calls of the log that are calls of the given operation.
Calls(op) == {k \in 1..Len(dev_log) : dev_log[k].op = op}

\* C13: a mount_device call on an object whose recorded mount point exists
\* returns that mount point, leaves it recorded, and does not run the
\* platform's mount mechanism, at the first call and at every repetition.
C13_MountDeviceIdempotent ==
    \A k \in Calls("mount_device") :
        (dev_log[k].before # NoPath /\ dev_log[k].existed) =>
            /\ dev_log[k].result = dev_log[k].before
            /\ dev_log[k].after = dev_log[k].before
            /\ ~dev_log[k].platform
            /\ ~dev_log[k].raised

\* C13 witness: ifuse mounted the device at the first call, and the second
\* call returned the same mount point without running ifuse again.
C13_Witness ==
    /\ Calls("mount_device") = {1, 2}
    /\ dev_log[1].before = NoPath /\ dev_log[1].platform
    /\ dev_log[1].result = TmpMount
    /\ dev_log[2].before = TmpMount /\ dev_log[2].result = TmpMount
    /\ ~dev_log[2].platform
    /\ ipod_mount_point = TmpMount

\* C14: unmount_device returns False and changes nothing when no mount point
\* is recorded; an unmount that returns True has cleared the recorded mount
\* point, so the unmount that follows it returns False; an unmount that does
\* not succeed leaves the recorded mount point as it was.
C14_UnmountClearsOnlyOnSuccess ==
    \A k \in Calls("unmount_device") :
        /\ dev_log[k].before = NoPath =>
              (dev_log[k].result = "False" /\ dev_log[k].after = NoPath)
        /\ dev_log[k].result = "True" => dev_log[k].after = NoPath
        /\ dev_log[k].result # "True" => dev_log[k].after = dev_log[k].before
        /\ (k - 1 \in Calls("unmount_device") /\ dev_log[k - 1].result = "True") =>
              dev_log[k].result = "False"

\* C14 witness: a successful unmount followed at once by one that failed.
C14_Witness ==
    /\ Calls("unmount_device") = {1, 2}
    /\ dev_log[1].before # NoPath /\ dev_log[1].result = "True"
    /\ dev_log[2].result = "False"
    /\ ipod_mount_point = NoPath

\* C15: the device object never records a mount point that does not exist on
\* the filesystem: it is either unmounted or mounted at an existing path.
C15_RecordedMountPointExists ==
    ipod_mount_point # NoPath => ipod_mount_point \in fs

\* detect_devices has been called.
Detected == detected.op = "detect_devices"

\* C16: on a host with none of the tools, no device visible to any strategy
\* and no manual mount point, detect_devices returns an empty list and does
\* not raise.
C16_EmptyHostDetectsNothing ==
    (/\ Detected
     /\ host.tools = {}
     /\ ~host.vendor /\ ~host.enum /\ ~host.scan
     /\ ipod_mount_point = NoPath) =>
        /\ detected.devices = <<>>
        /\ ~detected.raised

\* C16 witness: such a host running macOS, where the missing diskutil raised
\* FileNotFoundError inside detect_devices.
C16_Witness ==
    /\ Detected
    /\ system = "Darwin"
    /\ host.tools = {}
    /\ ~host.vendor /\ ~host.enum /\ ~host.scan
    /\ ipod_mount_point = NoPath
    /\ detected.ran = <<"vendor", "enum">>
    /\ detected.devices = <<>>

\* The strategy found at least one of the returned devices.
Found(strategy) ==
    \E k \in 1..Len(detected.devices) : detected.devices[k] = strategy

\* C17: detect_devices stops at the first strategy that finds a device: no
\* strategy runs after one that found something, and the manual mount point
\* is returned only when no strategy found anything.
C17_StopsAtFirstMatch ==
    Detected =>
        /\ \A i, j \in 1..Len(detected.ran) :
              i < j => ~Found(detected.ran[i])
        /\ Found("manual") => detected.devices = <<"manual">>

\* The discovery strategies of each platform, in the order of the code, and
\* the external tool each one needs ("none": it needs no tool).
Strategies(sys) ==
    CASE sys = "Darwin" -> <<"vendor", "enum", "scan">>
      [] sys \in {"Linux", "Windows"} -> <<"enum", "scan">>
      [] OTHER -> <<>>

ToolOf(sys, strategy) ==
    CASE sys = "Darwin" /\ strategy = "vendor" -> "idevice_id"
      [] sys = "Darwin" /\ strategy = "enum" -> "diskutil"
      [] sys = "Linux" /\ strategy = "enum" -> "lsblk"
      [] sys = "Windows" /\ strategy = "enum" -> "win32api"
      [] OTHER -> "none"

\* C18: a missing tool never makes detect_devices raise or skip a later
\* strategy: after a strategy whose tool is missing, every later strategy of
\* the platform runs, unless an earlier strategy had found a device.
C18_MissingToolSkipsNoStrategy ==
    Detected =>
        /\ ~detected.raised
        /\ LET S == Strategies(system)
               ran == {detected.ran[k] : k \in 1..Len(detected.ran)}
           IN  \A i, j \in 1..Len(S) :
                  (/\ i < j
                   /\ ToolOf(system, S[i]) \in Tools \ host.tools
                   /\ \A m \in 1..(j - 1) : ~Found(S[m])) => S[j] \in ran

\* C19: with a recorded mount point that does not exist, the transfer stage
\* does not end as insufficient space or as transferred, and nothing is
\* handed to transfer_file.
C19_UnmountedIsDeviceUnavailable ==
    mount_point = "missing" =>
        /\ outcome \notin {"insufficient_space", "transferred"}
        /\ attempted = <<>>

\* C20: when transfer_directory has returned on a mounted device, every file
\* of the tree with an allowed extension has been handed to shutil.copy2,
\* whether earlier copies failed or not.
C20_EveryEligibleFileAttempted ==
    (td_result \in {"True", "False"} /\ Mounted) =>
        \A i \in 1..Len(tree) :
            Eligible(tree[i]) => \E k \in 1..Len(td_copied) : td_copied[k] = i

\* C21 (as stated): of two consecutive convert_to_ipod_format calls with
\* overwrite=False for the same track, both return the same output path and
\* the transcoder is invoked by at most one of them.
C21_TwoCallsOneTranscode ==
    ~overwrite =>
        \A k \in 1..(Len(conv_log) - 1) :
            /\ ~conv_log[k].raised /\ ~conv_log[k + 1].raised
            /\ conv_log[k + 1].result = conv_log[k].result
            /\ ~(conv_log[k].transcoded /\ conv_log[k + 1].transcoded)

\* C21 (amended): with overwrite=False, the call that follows a call which
\* returned a path returns the same path, invokes no transcoder and raises
\* nothing.
C21_SecondCallSkipsTranscoder ==
    ~overwrite =>
        \A k \in 1..(Len(conv_log) - 1) :
            ~conv_log[k].raised =>
                conv_log[k + 1] = ConvertEntry(conv_log[k].result, FALSE, FALSE)

\* The first call transcoded and returned, the second found the file.
C21_Witness ==
    /\ ~overwrite
    /\ Len(conv_log) = 2
    /\ conv_log[1].transcoded /\ ~conv_log[1].raised
    /\ ~conv_log[2].transcoded
    /\ conv_log[2].result = conv_log[1].result
    /\ conv_log[2].result = OutputFile(output_dir, track_info, format)

\* The file name with every invalid character replaced, nothing else done.
Replaced(name) ==
    [i \in 1..Len(name) |-> IF name[i] \in InvalidChars THEN "_" ELSE name[i]]

\* C22: _sanitize_filename leaves none of the characters <>:"/\|?* in its
\* result, and for an input of more than 100 characters it returns exactly
\* 100 characters: the first 97 of the input after replacement, then "...".
C22_SanitizeReplacesAndCaps ==
    text_out.op = "_sanitize_filename" =>
        /\ \A i \in 1..Len(text_out.result) : text_out.result[i] \notin InvalidChars
        /\ Len(text_in) > 100 =>
              /\ Len(text_out.result) = 100
              /\ text_out.result =
                    SubSeq(Replaced(text_in), 1, 97) \o <<".", ".", ".">>

Parsed == text_out.op = "_parse_artist_title"

\* The positions of the separator characters in a title.
SeparatorPositions(s) == {p \in 1..Len(s) : s[p] \in {"-", ":", "|"}}

\* Before(s, p), After(s, p): the title up to and from position p, exclusive.
Before(s, p) == SubSeq(s, 1, p - 1)
After(s, p) == SubSeq(s, p + 1, Len(s))

\* The title is A, the separator sep written as in the examples ("A - T",
\* "A: T", "A | T"), and T, where A and T hold no separator character: the
\* pair <<A, T>>, or <<>> for any other title.
Example(s) ==
    IF Cardinality(SeparatorPositions(s)) # 1 THEN <<>>
    ELSE LET p == CHOOSE q \in SeparatorPositions(s) : TRUE
         IN  IF p = Len(s) \/ s[p + 1] # " " THEN <<>>
             ELSE IF s[p] = ":" THEN <<Before(s, p), After(s, p + 1)>>
             ELSE IF p = 1 \/ s[p - 1] # " " THEN <<>>
             ELSE <<Before(s, p - 1), After(s, p + 1)>>

\* C23 (as stated): "A - T", "A: T" and "A | T" are mapped to (A, T) for every
\* A and T without a separator character, and a title without a separator to
\* ("", the whole title).
C23_ExamplesSplitAsWritten ==
    Parsed =>
        /\ Example(text_in) # <<>> =>
              /\ text_out.result.artist = Example(text_in)[1]
              /\ text_out.result.title = Example(text_in)[2]
        /\ SeparatorPositions(text_in) = {} =>
              text_out.result = [artist |-> <<>>, title |-> text_in]

\* C23 (amended): "A - T", "A: T" and "A | T" are mapped to (A stripped,
\* T stripped) for every A and T without a separator character and without
\* a line feed, and a title without a separator to ("", the title stripped).
C23_ExamplesSplitAndStripped ==
    Parsed =>
        /\ (Example(text_in) # <<>> /\ NoLineFeed(text_in)) =>
              /\ text_out.result.artist = Strip(Example(text_in)[1])
              /\ text_out.result.title = Strip(Example(text_in)[2])
        /\ SeparatorPositions(text_in) = {} =>
              text_out.result = [artist |-> <<>>, title |-> Strip(text_in)]

\* "a - a" was parsed into artist "a" and title "a".
C23_Witness ==
    /\ Parsed
    /\ text_in = <<"a", " ", "-", " ", "a">>
    /\ text_out.result = [artist |-> <<"a">>, title |-> <<"a">>]

\* A title split at position p.
SplitAt(s, p) == [artist |-> Strip(Before(s, p)), title |-> Strip(After(s, p))]

\* The first position of character c in a title that holds it.
FirstPosition(s, c) ==
    CHOOSE p \in 1..Len(s) : s[p] = c /\ \A q \in 1..(p - 1) : s[q] # c

Holds(s, c) == \E p \in 1..Len(s) : s[p] = c

\* How the separators are tried in the order hyphen, colon, pipe.
Cascade(s) ==
    IF Holds(s, "-") THEN SplitAt(s, FirstPosition(s, "-"))
    ELSE IF Holds(s, ":") THEN SplitAt(s, FirstPosition(s, ":"))
    ELSE IF Holds(s, "|") THEN SplitAt(s, FirstPosition(s, "|"))
    ELSE [artist |-> <<>>, title |-> Strip(s)]

\* C26 (as stated): a title with a hyphen is split at its first hyphen, else
\* one with a colon at its first colon, else one with a pipe at its first
\* pipe, and only a title with none of the three yields an empty artist.
C26_FirstConventionDecides ==
    Parsed =>
        /\ text_out.result = Cascade(text_in)
        /\ text_out.result.artist = <<>> => SeparatorPositions(text_in) = {}

\* C26 (amended): a title without a line feed is split at its first hyphen if
\* it has one, else at its first colon, else at its first pipe (artist and
\* title stripped); a title with none of the three yields the empty artist
\* and the stripped title, and so does no other title unless nothing but
\* whitespace precedes its separator.
C26_FirstConventionDecidesOneLine ==
    (Parsed /\ NoLineFeed(text_in)) =>
        /\ text_out.result = Cascade(text_in)
        /\ (text_out.result.artist = <<>> /\ SeparatorPositions(text_in) # {}) =>
              \E p \in SeparatorPositions(text_in) : Strip(Before(text_in, p)) = <<>>

\* "a:a-a" was split at the hyphen, although the colon comes first.
C26_Witness ==
    /\ Parsed
    /\ text_in = <<"a", ":", "a", "-", "a">>
    /\ text_out.result = [artist |-> <<"a", ":", "a">>, title |-> <<"a">>]

\* C24: when process_url has gone through a playlist of n entries of which k
\* did not resolve, and has fetched every track it resolved, there are n-k
\* descriptors with the ordinals 1..n-k, and the acquiring stage reports
\* attempted = n and succeeded = n-k.
C24_AcquiringCounts ==
    (/\ pc = "download_return" /\ is_playlist /\ idx = total_entries
     /\ total_entries > 0
     /\ Len(successful_tracks) = Len(tracks)) =>
        /\ \A i \in 1..Len(tracks) : tracks[i].track_number = i
        /\ AcquiringSucceeded = Len(tracks)
        /\ AcquiringAttempted = total_entries

\* C25: a descriptor's video_id never changes; its download_path changes only
\* from empty, and to a path that is on disk at that moment; and after a fetch
\* that failed (the engine reported an error or raised) it is empty.
C25_DownloadPathSetOnceOnSuccess ==
    [][ /\ \A i \in 1..Len(descriptors) :
              /\ descriptors'[i].video_id = descriptors[i].video_id
              /\ descriptors'[i].download_path # descriptors[i].download_path =>
                    /\ descriptors[i].download_path = <<>>
                    /\ descriptors'[i].download_path \in expected_files'
        /\ \A k \in 1..Len(fetch_log') :
              fetch_log'[k].engine # "finished" =>
                  descriptors'[k].download_path = <<>> ]_vars

\* C27: a mount_device call whose platform mount mechanism was run and gave
\* no mount point (it exited non-zero, or the tool is missing) returns no
\* mount point, raises nothing and leaves the recorded mount point as it was.
C27_MountFailureReturnsNone ==
    \A k \in Calls("mount_device") :
        (dev_log[k].platform /\ (dev_log[k].raised \/ dev_log[k].result = NoPath)) =>
            /\ ~dev_log[k].raised
            /\ dev_log[k].result = NoPath
            /\ dev_log[k].after = dev_log[k].before

\* C28: when discovery has returned a first device whose dictionary carries a
\* mount point that exists, the mount step of the front-end yields that mount
\* point and does not run the platform's mount mechanism.
C28_MountStepKeepsDiscoveredMountPoint ==
    (/\ Calls("mount_device") # {}
     /\ HandleMountPoint # NoPath /\ HandleMountPoint \in fs) =>
        /\ dev_log[1].result = HandleMountPoint
        /\ ~dev_log[1].platform

\* The destination directory as C29 words it: the segments are written one
\* after the other below the mount point.
WordedDestDir ==
    LET segments == Parts(output_file)
        n == Len(segments)
    IN  IF relative_path # <<>> THEN device_mount \o relative_path
        ELSE IF n >= 3
        THEN device_mount \o <<<<"Music">>, segments[n - 2], segments[n - 1]>>
        ELSE device_mount \o <<<<"Music">>>>

\* C29: transfer_file's destination is <mount>/<hint> with a relative hint,
\* <mount>/Music/<third-to-last segment>/<second-to-last segment> without a
\* hint for a source path of at least three segments, <mount>/Music for a
\* shorter one, and the file keeps its base name.
C29_DestinationDirectory ==
    dest_file # <<>> => dest_file = Append(WordedDestDir, Basename(output_file))

\* The extensions C30 lists, in the lower and upper case forms a file name
\* may carry.
Listed ==
    {".m4a", ".M4A", ".mp3", ".MP3", ".aac", ".AAC", ".mp4", ".MP4"}

\* The place of source file i below the destination root when its relative
\* sub-path is kept.
Mirrored(i) ==
    [dir |-> FullDestDir \o tree[i].dir, name |-> i, ext |-> tree[i].ext]

RECURSIVE IsSubsequence(_, _)
\* s is t with some items removed: nothing added, reordered or repeated.
IsSubsequence(s, t) ==
    IF s = <<>> THEN TRUE
    ELSE IF t = <<>> THEN FALSE
    ELSE IF Head(s) = Head(t) THEN IsSubsequence(Tail(s), Tail(t))
    ELSE IsSubsequence(s, Tail(t))

\* C31: at every moment the result list of each stage is its input with some
\* items removed: the downloaded tracks in resolution order, the converted
\* tracks in download order (where the conversion stage built them: a GUI
\* transfer worker is handed its batch), the transferred tracks in conversion
\* order.
C31_ResultsKeepInputOrder ==
    /\ IsSubsequence(successful_tracks, tracks)
    /\ (frontend = "cli" \/ task_type = "convert") =>
           IsSubsequence(converted_tracks, downloaded_tracks)
    /\ IsSubsequence(transferred_tracks, converted_tracks)

C31_Witness ==
    /\ pc = "done"
    /\ Len(tracks) = 2 /\ successful_tracks = tracks
    /\ Len(converted_tracks) = 2 /\ converted_tracks = downloaded_tracks
    /\ transferred_tracks = <<converted_tracks[2]>>

\* C32: process_file hands .m4a, .aac and .mp4 files to the MP4 tagger and
\* .mp3 files to the ID3 tagger; for any other extension it returns False and
\* writes no tag; and when the thumbnail download fails the tagger still runs,
\* without artwork, and process_file returns the tagger's own result.
C32_DispatchAndThumbnailNotFatal ==
    tag_out.op = "process_file" =>
        /\ ~tag_out.raised
        /\ tag_in.ext \in {".m4a", ".aac", ".mp4"} =>
               tag_out.tagger = "embed_metadata_m4a"
        /\ tag_in.ext = ".mp3" => tag_out.tagger = "embed_metadata_mp3"
        /\ tag_in.ext \in {".wav", ""} =>
               /\ tag_out.tagger = "none"
               /\ ~tag_out.result /\ ~tag_out.tags_written
        /\ (tag_in.thumbnail_url /\ tag_in.fetch # "saved"
              /\ tag_in.ext \in {".m4a", ".aac", ".mp4", ".mp3"}) =>
               /\ tag_out.thumbnail_path = "none" /\ ~tag_out.artwork
               /\ tag_out.result = tag_in.write_ok
               /\ tag_out.tags_written = tag_in.write_ok

C32_Witness ==
    /\ tag_out.op = "process_file"
    /\ tag_in.ext = ".mp3" /\ tag_in.thumbnail_url
    /\ tag_in.fetch = "RequestException"
    /\ tag_out.result /\ tag_out.tags_written /\ ~tag_out.artwork

\* C33: a track whose tagging failed is not in the conversion stage's result
\* and is never handed to transfer_file.
C33_UntaggedItemDropped ==
    \A track \in untagged :
        /\ \A k \in 1..Len(converted_tracks) : converted_tracks[k] # track
        /\ \A k \in 1..Len(attempted) : attempted[k] # track

\* C34: within one run no item is taken twice: every loop only moves on to
\* its next item, a fetch is started only for the next track, and a file is
\* handed to transfer_file only as the loop passes it, whether the earlier
\* attempts succeeded or failed.
C34_NoItemTakenTwice ==
    [][/\ di' \in {di, di + 1} /\ ci' \in {ci, ci + 1} /\ ti' \in {ti, ti + 1}
       /\ (pc # "download_audio" /\ pc' = "download_audio") => di' = di + 1
       /\ converted_tracks' \notin {converted_tracks, <<>>} =>
              /\ ci' = ci + 1
              /\ converted_tracks' = Append(converted_tracks, ConvertInput[ci'])
       /\ attempted' # attempted =>
              /\ ti' = ti + 1
              /\ attempted' = Append(attempted, converted_tracks[ti'])]_vars

C34_Witness ==
    /\ pc = "done"
    /\ di = 2 /\ Len(tracks) = 2 /\ successful_tracks = <<tracks[2]>>
    /\ ci = 1 /\ converted_tracks = successful_tracks
    /\ ti = 1 /\ attempted = converted_tracks /\ transferred_tracks = <<>>

\* C35: every call that runs an external program returns to its caller, as a
\* success or as a failure, also when the program never exits.
C35_EveryInvocationReturns ==
    (proc_wait.call # "none") ~> (proc_wait.call = "none")

C37_FinalCallbackOnEveryPath ==
    (HasCallback /\ pc = "download_return") => progress = 100

\* C38: a worker thread never emits finished_signal twice, and every started
\* worker thread comes to emit it.
C38_FinishedEmittedExactlyOnce ==
    /\ [](Len(finished) <= 1)
    /\ (frontend = "gui") ~> (Len(finished) = 1)

\* The worker threads that have not reached their finished_signal.emit.
RunningWorkers == {i \in 1..Len(threads) : threads[i].state = "running"}

\* C39: at most one worker thread runs at any time, and worker_thread refers
\* to it (so that closeEvent stops and waits for every running worker).
C39_OneWorkerHeldByWindow ==
    /\ Cardinality(RunningWorkers) <= 1
    /\ \A i \in RunningWorkers : threads[i].current

\* C40: the window's converted_tracks are never tracks converted from an
\* earlier download than the one that gave the current downloaded_tracks, and
\* no transfer worker is handed such tracks.
C40_ConvertedFromCurrentDownload ==
    /\ converted_from # "earlier"
    /\ \A i \in 1..Len(threads) :
           threads[i].task_type = "transfer" => threads[i].tracks # "earlier"

====
